---- MODULE Spec2Model ----
(***************************************************************************)
(* A model of the Frugal AI Router backend: the per-provider circuit       *)
(* breaker, the auth and rate-limit middleware, the tenant manager and the *)
(* completion pipeline of server.js.                                       *)
(*                                                                         *)
(* Time is kept relative: instead of Date.now() and stored timestamps the  *)
(* model stores ages (now - timestamp), which an elapse of time increases. *)
(* An age saturates at the largest value the code ever compares it with.   *)
(***************************************************************************)
EXTENDS Integers, Sequences, FiniteSets, TLC

VARIABLES
    breakers,        \* circuitBreaker.js: the registry  provider -> CircuitBreaker
    activeRequests,  \* rateLimit.js: the active-request counter
    buckets,         \* rateLimit.js: the registry  tenant id -> TokenBucket
    inFlight,        \* census: responses admitted that emitted neither 'finish' nor 'close'
    finishing,       \* census: responses that emitted 'finish' and not yet 'close'
    lastMw,          \* the answer of the middleware chain to the latest request
    providers,       \* server.js: the names of the providers built from the environment
    tenants,         \* the tenants table:  tenant id -> row
    tenantCache,     \* tenantManager.js: tenantCache,  key hash -> tenant
    cache,           \* cache.js: exactMatchMap,  prompt -> entry
    reqs,            \* the requests in the completion handler, one per connection slot
    writeQueue,      \* server.js: writeQueue, the number of rows in the array
    flushTimer,      \* server.js: flushTimer is set (the 500 ms timer is pending)
    isDegraded,      \* server.js: isDegraded
    db,              \* database.js: the handle, and the rows of the requests table
    proc,            \* the process: where it is in its life, and its interval timers
    semanticCache,   \* cache.js: an instance of SemanticCache used through its methods
    routing,         \* router.js: the latest call of routeRequest, its inputs and result
    rlEngine,        \* rlEngine.js: the instance of RLEngine, and the latest call on it
    routingFeedback, \* the rows of the routing_feedback table of the last ten minutes
    transformer,     \* openai.js: the Transform of one AnthropicProvider stream
    classifier,      \* classifier.js: onnxReady, and the latest call of classify
    baseProvider     \* base.js: one BaseProvider, and the latest call of request

breakerVars == <<breakers>>
limitVars == <<activeRequests, buckets, inFlight, finishing, lastMw>>
serverVars == <<providers, tenants, tenantCache, cache, reqs>>
queueVars == <<writeQueue, flushTimer, isDegraded, db, proc>>
vars == <<breakers, activeRequests, buckets, inFlight, finishing, lastMw,
          providers, tenants, tenantCache, cache, reqs,
          writeQueue, flushTimer, isDegraded, db, proc, semanticCache, routing,
          rlEngine, routingFeedback, transformer, classifier, baseProvider>>
rlVars == <<rlEngine, routingFeedback>>
adapterVars == <<classifier, baseProvider>>
libVars == <<semanticCache, routing, rlVars, transformer, adapterVars>>

(***************************************************************************)
(* Bounds of the model                                                     *)
(***************************************************************************)
MaxEvents == 6          \* events kept in one breaker's window
MaxFailures == 6        \* cap of the consecutiveFailures counter
MaxDrift == 2           \* responses that may complete with both 'finish' and 'close'
MaxSlots == 2           \* connections open at a time
MaxRows == 2            \* rows of one transaction that are counted
MaxLookups == 2         \* calls of lookup() on one cache instance
MaxEmbeddings == 2      \* calls of store() with an embedding on one cache instance
MaxFeedback == 3        \* calls of recordFeedback() and POST /api/feedback on one engine
MaxFeedbackRows == 2    \* rows of routing_feedback within ten minutes
MaxChunks == 2          \* chunks of one upstream stream that are counted
MaxDeltas == 2          \* content_block_delta events of one Anthropic stream
MaxProbeEvents == 7     \* events of the breaker that is followed through a probe
MaxChunkPieces == 3     \* pieces of the upstream bytes in one network chunk

Min(a, b) == IF a <= b THEN a ELSE b
Max(a, b) == IF a >= b THEN a ELSE b

(***************************************************************************)
(* circuitBreaker.js                                                       *)
(***************************************************************************)
CLOSED == "CLOSED"
OPEN == "OPEN"
HALF_OPEN == "HALF_OPEN"
STATES == {CLOSED, OPEN, HALF_OPEN}

errorRateThresholdPct == 50
timeoutRateThresholdPct == 30
p95LatencyThreshold == 30000
minSamples == 5
windowMs == 60000
baseCooldownMs == 10000
maxCooldownMs == 120000

NoReason == "null"
NotOpened == -1

\* constructor(name, options = {})
CircuitBreaker ==
    [ state |-> CLOSED,
      events |-> << >>,
      consecutiveFailures |-> 0,
      cooldownMs |-> baseCooldownMs,
      openedAgo |-> NotOpened,          \* Date.now() - openedAt; NotOpened: openedAt = null
      lastOpenReason |-> NoReason ]

\* SelectSeq with the predicate written over the element
FilterEvents(evs, keepOld) ==
    SelectSeq(evs, LAMBDA e : keepOld \/ e.age < windowMs)

\* _pruneOldEvents(): keep the events with timestamp > now - windowMs
PruneOldEvents(b) == [b EXCEPT !.events = FilterEvents(b.events, FALSE)]

\* this.events.filter(e => !e.success).length
CountFailures(evs) == Cardinality({i \in 1..Len(evs) : ~evs[i].success})

\* this.events.filter(e => e.timedOut).length
CountTimeouts(evs) == Cardinality({i \in 1..Len(evs) : evs[i].timedOut})

\* latencies.sort((a, b) => a - b)[k], k counted from 0: the value v with at most k
\* entries below it and more than k entries at or below it
SortedAt(evs, k) ==
    CHOOSE v \in {evs[i].latencyMs : i \in 1..Len(evs)} :
        /\ Cardinality({i \in 1..Len(evs) : evs[i].latencyMs < v}) <= k
        /\ Cardinality({i \in 1..Len(evs) : evs[i].latencyMs <= v}) > k

\* Math.ceil(total * 0.95) - 1
P95Index(total) == ((19 * total + 19) \div 20) - 1

\* the reason _evaluate() computes, NoReason when no threshold is breached
OpenReason(evs) ==
    LET total == Len(evs)
        failures == CountFailures(evs)
        timeouts == CountTimeouts(evs)
        p95Latency == SortedAt(evs, Min(P95Index(total), total - 1))
    IN  IF 100 * failures >= errorRateThresholdPct * total THEN "error rate"
        ELSE IF 100 * timeouts >= timeoutRateThresholdPct * total THEN "timeout rate"
        ELSE IF p95Latency >= p95LatencyThreshold THEN "P95 latency"
        ELSE NoReason

\* _evaluate() with the sample test off by one: it asks for more than minSamples
Evaluate_strictSamples(b) ==
    LET p == PruneOldEvents(b)
    IN  IF Len(p.events) <= minSamples THEN p
        ELSE IF OpenReason(p.events) # NoReason
             THEN [p EXCEPT !.state = OPEN,
                            !.openedAgo = 0,
                            !.lastOpenReason = OpenReason(p.events)]
             ELSE p

\* _evaluate()
Evaluate(b) ==
    LET p == PruneOldEvents(b)
    IN  IF Len(p.events) < minSamples THEN p
        ELSE IF OpenReason(p.events) # NoReason
             THEN [p EXCEPT !.state = OPEN,
                            !.openedAgo = 0,
                            !.lastOpenReason = OpenReason(p.events)]
             ELSE p

\* canExecute(): the breaker after the call and the value returned
CanExecute(b) ==
    LET p == PruneOldEvents(b)
    IN  CASE p.state = CLOSED ->
                [breaker |-> p, allowed |-> TRUE, reason |-> "circuit closed"]
          [] p.state = OPEN ->
                IF p.openedAgo >= p.cooldownMs
                THEN [breaker |-> [p EXCEPT !.state = HALF_OPEN],
                      allowed |-> TRUE, reason |-> "half-open probe"]
                ELSE [breaker |-> p, allowed |-> FALSE, reason |-> "circuit open"]
          [] p.state = HALF_OPEN ->
                [breaker |-> p, allowed |-> FALSE,
                 reason |-> "half-open - waiting for probe result"]

\* recordResult() with the backoff left uncapped: cooldownMs * 2 without Math.min
RecordResult_uncapped(b, success, latencyMs, timedOut) ==
    LET event == [age |-> 0, success |-> success,
                  latencyMs |-> latencyMs, timedOut |-> timedOut]
        pushed == [b EXCEPT !.events = Append(b.events, event)]
    IN  IF b.state = HALF_OPEN
        THEN IF success
             THEN [pushed EXCEPT !.state = CLOSED,
                                 !.consecutiveFailures = 0,
                                 !.cooldownMs = baseCooldownMs]
             ELSE [pushed EXCEPT !.state = OPEN,
                                 !.openedAgo = 0,
                                 !.cooldownMs = b.cooldownMs * 2]
        ELSE Evaluate([pushed EXCEPT !.consecutiveFailures =
                                        IF success THEN 0 ELSE b.consecutiveFailures + 1])

\* recordResult(success, latencyMs, timedOut = false)
RecordResult(b, success, latencyMs, timedOut) ==
    LET event == [age |-> 0, success |-> success,
                  latencyMs |-> latencyMs, timedOut |-> timedOut]
        pushed == [b EXCEPT !.events = Append(b.events, event)]
    IN  IF b.state = HALF_OPEN
        THEN IF success
             THEN [pushed EXCEPT !.state = CLOSED,
                                 !.consecutiveFailures = 0,
                                 !.cooldownMs = baseCooldownMs]
             ELSE [pushed EXCEPT !.state = OPEN,
                                 !.openedAgo = 0,
                                 !.cooldownMs = Min(b.cooldownMs * 2, maxCooldownMs)]
        ELSE Evaluate([pushed EXCEPT !.consecutiveFailures =
                                        IF success THEN 0 ELSE b.consecutiveFailures + 1])

\* getMetrics(): prunes, and reports the state
GetMetrics(b) == PruneOldEvents(b)

\* the passage of dt milliseconds, seen by one breaker
AgeBreaker(b, dt) ==
    [b EXCEPT !.events = [i \in 1..Len(b.events) |->
                            [b.events[i] EXCEPT !.age = Min(@ + dt, windowMs)]],
              !.openedAgo = IF @ = NotOpened THEN NotOpened
                            ELSE Min(@ + dt, maxCooldownMs)]

(***************************************************************************)
(* models/models.json: the model catalog, in insertion order.  The file is *)
(* not part of the sources at hand; the entries follow the data model of   *)
(* the specification (cost per 1M tokens in cents, reliability in 1/1000). *)
(***************************************************************************)
Catalog ==
    << [id |-> "gpt-4o", provider |-> "openai",
        input_cost_per_1m |-> 250, output_cost_per_1m |-> 1000,
        avg_latency_ms |-> 1200, reliability |-> 990, energy_intensity |-> 8,
        quality_score |-> 92, strengths |-> {"code", "reasoning", "analysis", "math"}],
       [id |-> "llama-3.1-8b", provider |-> "groq",
        input_cost_per_1m |-> 5, output_cost_per_1m |-> 8,
        avg_latency_ms |-> 300, reliability |-> 970, energy_intensity |-> 2,
        quality_score |-> 65, strengths |-> {"qa", "summarization"}],
       [id |-> "command-r", provider |-> "cohere",
        input_cost_per_1m |-> 15, output_cost_per_1m |-> 60,
        avg_latency_ms |-> 900, reliability |-> 980, energy_intensity |-> 4,
        quality_score |-> 80, strengths |-> {"translation", "creative"}],
       [id |-> "mixtral-8x7b", provider |-> "groq",
        input_cost_per_1m |-> 15, output_cost_per_1m |-> 60,
        avg_latency_ms |-> 600, reliability |-> 990, energy_intensity |-> 3,
        quality_score |-> 78, strengths |-> {"qa", "summarization"}] >>

ModelIdx == 1..Len(Catalog)
ModelIds == {Catalog[i].id : i \in ModelIdx}
AllProviders == {Catalog[i].provider : i \in ModelIdx}

(***************************************************************************)
(* router.js.  Scores are fixed-point numbers with six decimals (ONE is    *)
(* 1.0); weights are in 1/100.                                             *)
(***************************************************************************)
ONE == 1000000

STRATEGY_WEIGHTS ==
    ("cost-first" :>
        [cost |-> 35, quality |-> 20, latency |-> 10, energy |-> 10, reliability |-> 10, rl |-> 15])
    @@ ("green-first" :>
        [cost |-> 10, quality |-> 15, latency |-> 10, energy |-> 35, reliability |-> 10, rl |-> 20])
    @@ ("performance-first" :>
        [cost |-> 5, quality |-> 35, latency |-> 20, energy |-> 5, reliability |-> 20, rl |-> 15])
    @@ ("balanced" :>
        [cost |-> 20, quality |-> 20, latency |-> 15, energy |-> 15, reliability |-> 15, rl |-> 15])

Strategies == DOMAIN STRATEGY_WEIGHTS

MIN_BENCHMARK_SAMPLES == 20

\* normalizeMinMax(value, min, max)
NormalizeMinMax(value, lo, hi) ==
    IF hi = lo THEN ONE \div 2
    ELSE Max(0, Min(ONE, ((value - lo) * ONE) \div (hi - lo)))

\* invertNormalize(value, min, max)
InvertNormalize(value, lo, hi) == ONE - NormalizeMinMax(value, lo, hi)

\* blendWithBaseline(observed, baseline, sampleCount)
BlendWithBaseline(observed, baseline, sampleCount) ==
    LET n == Min(sampleCount, MIN_BENCHMARK_SAMPLES)
    IN  (n * observed + (MIN_BENCHMARK_SAMPLES - n) * baseline) \div MIN_BENCHMARK_SAMPLES

IntentStrengthMap ==
    [ code |-> {"code", "reasoning"},
      math |-> {"math", "reasoning"},
      analysis |-> {"analysis", "reasoning"},
      creative |-> {"creative"},
      translation |-> {"translation"},
      qa |-> {"qa", "summarization"},
      general |-> {} ]

Intents == DOMAIN IntentStrengthMap

\* qualityMatchScore(intent, modelStrengths, baseQuality)
QualityMatchScore(intent, modelStrengths, baseQuality) ==
    LET relevantStrengths == IntentStrengthMap[intent]
        matchCount == Cardinality(relevantStrengths \cap modelStrengths)
        strengthBonus == IF relevantStrengths # {}
                         THEN (matchCount * (ONE \div 5)) \div Cardinality(relevantStrengths)
                         ELSE 0
    IN  Min(ONE, baseQuality * (ONE \div 100) + strengthBonus)

TIER_MIN_QUALITY ==
    [trivial |-> 0, simple |-> 0, moderate |-> 60, complex |-> 80, expert |-> 90]

Tiers == DOMAIN TIER_MIN_QUALITY

confidenceThresholdPct == 50

NoAllowlist == [restricted |-> FALSE, ids |-> {}]   \* tenantAllowedModels = null
NoBenchmark == [absent |-> TRUE]                    \* benchmarkMetrics[m.id] undefined

\* the filters of routeRequest without the confidence adjustment
RouteFiltered_noConfidence(classification, breakerStates, tenantAllowedModels) ==
    LET allowed == IF ~tenantAllowedModels.restricted THEN ModelIdx
                   ELSE {i \in ModelIdx : Catalog[i].id \in tenantAllowedModels.ids}
        viable == {i \in allowed : breakerStates[Catalog[i].provider] # OPEN}
        minQuality == TIER_MIN_QUALITY[classification.tier]
        qualityCandidates == {i \in viable : Catalog[i].quality_score >= minQuality}
    IN  IF qualityCandidates # {} THEN qualityCandidates ELSE viable

\* the candidates of routeRequest after the allowlist, breaker, quality and
\* confidence filters (lines 148-183): a set of catalog indexes
RouteFiltered(classification, breakerStates, tenantAllowedModels) ==
    LET allowed == IF ~tenantAllowedModels.restricted THEN ModelIdx
                   ELSE {i \in ModelIdx : Catalog[i].id \in tenantAllowedModels.ids}
        viable == {i \in allowed : breakerStates[Catalog[i].provider] # OPEN}
        minQuality == TIER_MIN_QUALITY[classification.tier]
        qualityCandidates == {i \in viable : Catalog[i].quality_score >= minQuality}
        afterQuality == IF qualityCandidates # {} THEN qualityCandidates ELSE viable
        adjustedMinQuality == Min(minQuality + 15, 95)
        safeCandidates == {i \in afterQuality : Catalog[i].quality_score >= adjustedMinQuality}
        afterConfidence ==
            IF classification.confidencePct < confidenceThresholdPct /\ safeCandidates # {}
            THEN safeCandidates ELSE afterQuality
    IN  afterConfidence

\* routeRequest without its ultimate fallback
RouteCandidates_noFallback(classification, breakerStates, tenantAllowedModels) ==
    RouteFiltered(classification, breakerStates, tenantAllowedModels)

\* the candidates routeRequest scores: all models when the filters leave none
RouteCandidates(classification, breakerStates, tenantAllowedModels) ==
    LET filtered == RouteFiltered(classification, breakerStates, tenantAllowedModels)
    IN  IF filtered = {} THEN ModelIdx ELSE filtered

\* the latency routeRequest takes for the normalization range of model i
RangeLatency(i, benchmarkMetrics) ==
    IF benchmarkMetrics[Catalog[i].id] # NoBenchmark
    THEN benchmarkMetrics[Catalog[i].id].avgLatencyMs
    ELSE Catalog[i].avg_latency_ms

SetMin(S) == CHOOSE x \in S : \A y \in S : x <= y
SetMax(S) == CHOOSE x \in S : \A y \in S : x >= y

\* totalScore of candidate i among cands, in 1/1000 (Math.round(totalScore * 1000))
TotalScore(i, cands, classification, strategy, rlScores, benchmarkMetrics) ==
    LET m == Catalog[i]
        weights == STRATEGY_WEIGHTS[strategy]
        costOf(j) == Catalog[j].input_cost_per_1m + Catalog[j].output_cost_per_1m
        costValues == {costOf(j) : j \in cands}
        latencyValues == {RangeLatency(j, benchmarkMetrics) : j \in cands}
        energyValues == {Catalog[j].energy_intensity : j \in cands}
        bm == benchmarkMetrics[m.id]
        sampleCount == IF bm # NoBenchmark THEN bm.sampleCount ELSE 0
        realLatency == IF bm # NoBenchmark
                       THEN BlendWithBaseline(bm.avgLatencyMs, m.avg_latency_ms, sampleCount)
                       ELSE m.avg_latency_ms
        realReliability == IF bm # NoBenchmark
                           THEN BlendWithBaseline(1000 - bm.errorRate, m.reliability, sampleCount)
                           ELSE m.reliability
        costScore == InvertNormalize(costOf(i), SetMin(costValues), SetMax(costValues))
        qualityScore == QualityMatchScore(classification.intent, m.strengths, m.quality_score)
        latencyScore == InvertNormalize(realLatency, SetMin(latencyValues), SetMax(latencyValues))
        energyScore == InvertNormalize(m.energy_intensity, SetMin(energyValues), SetMax(energyValues))
        reliabilityScore == realReliability * (ONE \div 1000)
        rlScore == IF rlScores[m.id] = 0 THEN ONE \div 2 ELSE rlScores[m.id] * (ONE \div 1000)
        total == weights.cost * costScore + weights.quality * qualityScore
                 + weights.latency * latencyScore + weights.energy * energyScore
                 + weights.reliability * reliabilityScore + weights.rl * rlScore
    IN  (total + 50000) \div 100000

\* a sort that puts the later of two candidates of equal score first
SortByScore_tiesLast(cands, score) ==
    LET before(j, i) == score[j] > score[i] \/ (score[j] = score[i] /\ j > i)
        rank(i) == Cardinality({j \in cands : before(j, i)})
    IN  [k \in 1..Cardinality(cands) |-> CHOOSE i \in cands : rank(i) = k - 1]

\* scoredCandidates.sort((a, b) => b.totalScore - a.totalScore): a stable sort, so
\* candidates of equal score keep the catalog order
SortByScore(cands, score) ==
    LET before(j, i) == score[j] > score[i] \/ (score[j] = score[i] /\ j < i)
        rank(i) == Cardinality({j \in cands : before(j, i)})
    IN  [k \in 1..Cardinality(cands) |-> CHOOSE i \in cands : rank(i) = k - 1]

\* a function as the table of its values (TLC then computes each value once)
Table(f) == f @@ <<>>

\* no result of routeRequest
NoRoute ==
    [ selectedModelId |-> "", selected |-> 0, score |-> 0, allCandidates |-> << >>,
      scores |-> << >>, warned |-> FALSE, threw |-> FALSE ]

\* routeRequest(classification, strategy, options)
RouteRequest(classification, strategy, rlScores, benchmarkMetrics, breakerStates, allowlist) ==
    LET used == IF strategy \in Strategies THEN strategy ELSE "balanced"
        cands == RouteCandidates(classification, breakerStates, allowlist)
        score == Table([i \in cands |->
                    TotalScore(i, cands, classification, used, rlScores, benchmarkMetrics)])
        sorted == Table(SortByScore(cands, score))
    IN  IF cands = {} THEN [NoRoute EXCEPT !.threw = TRUE]     \* best is undefined
        ELSE [ selectedModelId |-> Catalog[sorted[1]].id,
               selected |-> sorted[1],
               score |-> score[sorted[1]],
               allCandidates |-> sorted,
               scores |-> score,
               warned |-> RouteFiltered(classification, breakerStates, allowlist) = {},
               threw |-> FALSE ]

(***************************************************************************)
(* middleware/rateLimit.js.  A bucket's tokens are kept in units of        *)
(* 1/60000 token, so that the refill  elapsed[s] * rpm / 60  is the whole  *)
(* number  elapsed[ms] * rpm.                                              *)
(***************************************************************************)
MAX_CONCURRENT == 100
DefaultRpm == 60
RefillPeriodMs == 60000
TokenUnit == RefillPeriodMs

TenantIds == {"t1", "t2"}
NoTenant == [id |-> "null"]            \* req.tenant of an anonymous request
NoBucket == [absent |-> TRUE]          \* buckets.has(tenantId) is false

\* new TokenBucket(rate, capacity), rate = rpmLimit / 60 tokens per second
TokenBucket(rpmLimit) ==
    [ ratePerMin |-> rpmLimit,
      capacity |-> rpmLimit * TokenUnit,
      tokens |-> rpmLimit * TokenUnit,
      sinceRefill |-> 0 ]                 \* Date.now() - lastRefill

\* _refill()
Refill(b) ==
    [b EXCEPT !.tokens = Min(b.capacity, b.tokens + b.sinceRefill * b.ratePerMin),
              !.sinceRefill = 0]

\* consume(count = 1) with >= mistaken for >
Consume_strict(b) ==
    LET r == Refill(b)
    IN  IF r.tokens > TokenUnit
        THEN [bucket |-> [r EXCEPT !.tokens = @ - TokenUnit], ok |-> TRUE]
        ELSE [bucket |-> r, ok |-> FALSE]

\* consume(count = 1): the bucket after the call and the value returned
Consume(b) ==
    LET r == Refill(b)
    IN  IF r.tokens >= TokenUnit
        THEN [bucket |-> [r EXCEPT !.tokens = @ - TokenUnit], ok |-> TRUE]
        ELSE [bucket |-> r, ok |-> FALSE]

\* getBucket(tenantId, rpmLimit)
GetBucket(bs, tenantId, rpmLimit) ==
    IF bs[tenantId] = NoBucket THEN TokenBucket(rpmLimit) ELSE bs[tenantId]

\* the middleware of createRateLimitMiddleware() on a request whose req.tenant is
\* tenant: the answer, and the counter and the buckets after it
RateLimit(active, bs, tenant) ==
    IF active >= MAX_CONCURRENT
    THEN [status |-> 429, code |-> "concurrency_limit", admitted |-> FALSE,
          active |-> active, buckets |-> bs]
    ELSE IF tenant = NoTenant
    THEN [status |-> 0, code |-> "next", admitted |-> TRUE,
          active |-> active + 1, buckets |-> bs]
    ELSE LET rpm == IF tenant.rate_limit_rpm = 0 THEN DefaultRpm ELSE tenant.rate_limit_rpm
             c == Consume(GetBucket(bs, tenant.id, rpm))
             bs2 == [bs EXCEPT ![tenant.id] = c.bucket]
         IN  IF ~c.ok
             THEN [status |-> 429, code |-> "rpm_exceeded", admitted |-> FALSE,
                   active |-> active, buckets |-> bs2]
             ELSE [status |-> 0, code |-> "next", admitted |-> TRUE,
                   active |-> active + 1, buckets |-> bs2]

\* the passage of dt milliseconds, seen by one bucket
AgeBucket(b, dt) ==
    IF b = NoBucket THEN b
    ELSE [b EXCEPT !.sinceRefill = Min(@ + dt, RefillPeriodMs)]

(***************************************************************************)
(* services/tenantManager.js and middleware/auth.js.  An API key is its    *)
(* prefix and the rest of it; SHA-256 is one-to-one on the keys.  Costs,   *)
(* budgets and usage are in units of 1e-8 dollar.                          *)
(***************************************************************************)
NoKey == [prefix |-> "", secret |-> ""]            \* no Authorization, no x-api-key

\* _hashKey(apiKey)
HashKey(k) == <<"sha256", k.prefix, k.secret>>

\* _generateApiKey(): a key of tenant t
TenantKey(t) == [prefix |-> "fra_", secret |-> t]

\* the rows of the tenants table when the server starts; budget 0 is NULL
TenantRows ==
    [ t1 |-> [id |-> "t1", api_key_hash |-> HashKey(TenantKey("t1")),
              strategy |-> "cost-first", allowedModels |-> NoAllowlist,
              budget_limit_monthly |-> 500, rate_limit_rpm |-> 2,
              usage_this_month |-> 0],
      t2 |-> [id |-> "t2", api_key_hash |-> HashKey(TenantKey("t2")),
              strategy |-> "performance-first",
              allowedModels |-> [restricted |-> TRUE, ids |-> {"gpt-4o"}],
              budget_limit_monthly |-> 3000, rate_limit_rpm |-> 6,
              usage_this_month |-> 0] ]

\* the keys requests present
AllKeys ==
    { NoKey,
      [prefix |-> "sk-", secret |-> "a"],
      [prefix |-> "ant-", secret |-> "a"],
      [prefix |-> "xyz", secret |-> "a"],
      [prefix |-> "fra_", secret |-> "bad"],
      TenantKey("t1"),
      TenantKey("t2") }

KeyHashes == {HashKey(k) : k \in AllKeys}

\* authenticate(apiKey): the tenant returned (NoTenant for null) and the cache
Authenticate(k, tCache, tDb) ==
    LET hash == HashKey(k)
        found == {t \in DOMAIN tDb : tDb[t].api_key_hash = hash}
    IN  IF tCache[hash] # NoTenant
        THEN [tenant |-> tCache[hash], tenantCache |-> tCache]
        ELSE IF found # {}
        THEN LET row == tDb[CHOOSE t \in found : TRUE]
             IN  [tenant |-> row, tenantCache |-> [tCache EXCEPT ![hash] = row]]
        ELSE [tenant |-> NoTenant, tenantCache |-> tCache]

NaN == -1               \* a cost computed from undefined token counts
Null == -1              \* a usage_this_month that is NULL

\* isWithinBudget(tenant)
IsWithinBudget(tenant) ==
    IF tenant = NoTenant THEN TRUE
    ELSE IF tenant.budget_limit_monthly = 0 THEN TRUE
    ELSE (IF tenant.usage_this_month = Null THEN 0 ELSE tenant.usage_this_month)
            < tenant.budget_limit_monthly

\* UPDATE tenants SET usage_this_month = usage_this_month + @cost
AddUsage(usage, cost) ==
    IF usage = Null \/ cost = NaN THEN Null ELSE usage + cost

\* trackUsage(tenantId, cost) leaving the cached tenant in place
TrackUsage_keepCache(tDb, tCache, tenantId, cost) ==
    IF tenantId = NoTenant.id THEN [tenants |-> tDb, tenantCache |-> tCache]
    ELSE [ tenants |-> [tDb EXCEPT ![tenantId].usage_this_month = AddUsage(@, cost)],
           tenantCache |-> tCache ]

\* trackUsage(tenantId, cost): the table and the cache after it
TrackUsage(tDb, tCache, tenantId, cost) ==
    IF tenantId = NoTenant.id THEN [tenants |-> tDb, tenantCache |-> tCache]
    ELSE [ tenants |-> [tDb EXCEPT ![tenantId].usage_this_month = AddUsage(@, cost)],
           tenantCache |-> [h \in DOMAIN tCache |->
                               IF tCache[h] # NoTenant /\ tCache[h].id = tenantId
                               THEN NoTenant ELSE tCache[h]] ]

\* the middleware of createAuthMiddleware() with the 401 left out
Auth_noReject(k, tCache, tDb) ==
    IF k = NoKey \/ k.prefix \in {"sk-", "ant-"} \/ k.prefix # "fra_"
    THEN [status |-> 0, code |-> "next", tenant |-> NoTenant, tenantCache |-> tCache]
    ELSE LET a == Authenticate(k, tCache, tDb)
         IN  IF ~IsWithinBudget(a.tenant)
             THEN [status |-> 429, code |-> "budget_exceeded", tenant |-> NoTenant,
                   tenantCache |-> a.tenantCache]
             ELSE [status |-> 0, code |-> "next", tenant |-> a.tenant,
                   tenantCache |-> a.tenantCache]

\* the middleware of createAuthMiddleware() on a request with key k: the answer
\* (status 0 and code "next" when it calls next()), req.tenant, and the cache
Auth(k, tCache, tDb) ==
    IF k = NoKey \/ k.prefix \in {"sk-", "ant-"} \/ k.prefix # "fra_"
    THEN [status |-> 0, code |-> "next", tenant |-> NoTenant, tenantCache |-> tCache]
    ELSE LET a == Authenticate(k, tCache, tDb)
         IN  IF a.tenant = NoTenant
             THEN [status |-> 401, code |-> "invalid_api_key", tenant |-> NoTenant,
                   tenantCache |-> a.tenantCache]
             ELSE IF ~IsWithinBudget(a.tenant)
             THEN [status |-> 429, code |-> "budget_exceeded", tenant |-> NoTenant,
                   tenantCache |-> a.tenantCache]
             ELSE [status |-> 0, code |-> "next", tenant |-> a.tenant,
                   tenantCache |-> a.tenantCache]

(***************************************************************************)
(* services/cache.js, the exact-match map.  An entry is the model that     *)
(* answered and the age of its timestamp.                                  *)
(***************************************************************************)
ttlMs == 3600000
NoEntry == [absent |-> TRUE]

Prompts == {"hi", "Hi "}

\* _hash(prompt): sha256 of prompt.trim().toLowerCase(), on the prompts above
HashPrompt(prompt) == IF prompt = "Hi " THEN "hi" ELSE prompt

CacheKeys == {HashPrompt(q) : q \in Prompts}

\* _evictExpired()
EvictExpired(c) ==
    [h \in DOMAIN c |-> IF c[h] # NoEntry /\ c[h].age > ttlMs THEN NoEntry ELSE c[h]]

\* lookup(promptHash) that renews the timestamp of the entry it returns
Lookup_touch(c, hash) ==
    LET e == EvictExpired(c)
    IN  IF e[hash] # NoEntry /\ e[hash].age < ttlMs
        THEN [cache |-> [e EXCEPT ![hash].age = 0], hit |-> TRUE, model |-> e[hash].model]
        ELSE [cache |-> e, hit |-> FALSE, model |-> ""]

\* lookup(promptHash): the map after the call and the value returned
Lookup(c, hash) ==
    LET e == EvictExpired(c)
    IN  IF e[hash] # NoEntry /\ e[hash].age < ttlMs
        THEN [cache |-> e, hit |-> TRUE, model |-> e[hash].model]
        ELSE [cache |-> e, hit |-> FALSE, model |-> ""]

\* store(promptHash, response, model)
Store(c, hash, model) == [c EXCEPT ![hash] = [model |-> model, age |-> 0]]

\* the passage of dt milliseconds, seen by the cache
AgeCache(c, dt) ==
    [h \in DOMAIN c |-> IF c[h] = NoEntry THEN NoEntry
                        ELSE [c[h] EXCEPT !.age = Min(@ + dt, ttlMs + 1)]]

(***************************************************************************)
(* services/cache.js, the class SemanticCache with all it keeps.  Time is  *)
(* in milliseconds and an entry carries the age of its timestamp.  An      *)
(* embedding is a vector of non-negative integers, and a similarity is the *)
(* fraction num / sqrt(den2), compared without rounding.                   *)
(***************************************************************************)
CacheHashes == {"h1", "h2", "h3"}

NoEmbedding == << >>                              \* embedding = null

\* what store() is given to keep
Payloads ==
    { [response |-> "r1", model |-> "m1", embedding |-> NoEmbedding],
      [response |-> "r2", model |-> "m2", embedding |-> <<1, 0>>],
      [response |-> "r3", model |-> "m1", embedding |-> <<12, 5>>] }

\* what lookup() is given next to the hash
Probes == {NoEmbedding, <<12, 5>>}

\* the options of the instances examined; the thresholds are in 1/100
CacheOptions ==
    { [maxSize |-> 2, ttlMs |-> 1, similarityThreshold |-> 92,
       minEntriesForEmbedding |-> 1, minHitRateForEmbedding |-> 15] }

NewStats ==
    [ totalLookups |-> 0, exactHits |-> 0, semanticHits |-> 0, misses |-> 0,
      embeddingsComputed |-> 0, embeddingsSkipped |-> 0 ]

\* the counters of an instance that has answered lookups before all its entries
\* expired: none, 50 with 7 hits, 50 with 8 hits
CacheStats ==
    { NewStats,
      [NewStats EXCEPT !.totalLookups = 50, !.exactHits = 7, !.misses = 43],
      [NewStats EXCEPT !.totalLookups = 50, !.exactHits = 8, !.misses = 42] }

\* what the last call on the instance was and returned; age is the age the entry
\* returned had at that moment
\* the call made before the last one: which it was, on what hash, and for a
\* store how many entries its loop evicted and whether the hash was in the map
NoCall == [op |-> "none", hash |-> "", evicted |-> 0, replaced |-> FALSE]

NoResult ==
    [ op |-> "none", hash |-> "", hit |-> FALSE, source |-> "", response |-> "",
      model |-> "", age |-> 0, evicted |-> 0, dropped |-> 0, replaced |-> FALSE,
      prev |-> NoCall ]

\* constructor(options), with the counters given
SemanticCache(options, stats) ==
    [ maxSize |-> options.maxSize,
      ttlMs |-> options.ttlMs,
      similarityThreshold |-> options.similarityThreshold,
      minEntriesForEmbedding |-> options.minEntriesForEmbedding,
      minHitRateForEmbedding |-> options.minHitRateForEmbedding,
      exactMatchMap |-> [h \in CacheHashes |-> NoEntry],
      embeddingEntries |-> << >>,
      accessOrder |-> << >>,
      stats |-> stats,
      returned |-> NoResult ]

\* exactMatchMap.size
MapSize(c) == Cardinality({h \in CacheHashes : c.exactMatchMap[h] # NoEntry})

\* _shouldUseEmbedding(): the answer, and the instance with its counter
ShouldUseEmbedding(c) ==
    IF MapSize(c) < c.minEntriesForEmbedding
    THEN [use |-> FALSE, cache |-> c]
    ELSE LET totalHits == c.stats.exactHits + c.stats.semanticHits
             belowRate == /\ c.stats.totalLookups > 50
                          /\ totalHits * 100 < c.minHitRateForEmbedding * c.stats.totalLookups
         IN  IF belowRate
             THEN [use |-> FALSE, cache |-> [c EXCEPT !.stats.embeddingsSkipped = @ + 1]]
             ELSE [use |-> TRUE, cache |-> c]

RECURSIVE SumOfProducts(_, _, _)
SumOfProducts(a, b, i) ==
    IF i > Len(a) THEN 0 ELSE a[i] * b[i] + SumOfProducts(a, b, i + 1)

ZeroSimilarity == [num |-> 0, den2 |-> 1]

\* _cosineSimilarity(a, b)
CosineSimilarity(a, b) ==
    IF a = NoEmbedding \/ b = NoEmbedding \/ Len(a) # Len(b) THEN ZeroSimilarity
    ELSE LET den2 == SumOfProducts(a, a, 1) * SumOfProducts(b, b, 1)
         IN  IF den2 = 0 THEN ZeroSimilarity
             ELSE [num |-> SumOfProducts(a, b, 1), den2 |-> den2]

\* x > y and x >= pct / 100 on similarities
SimGreater(x, y) == x.num * x.num * y.den2 > y.num * y.num * x.den2
SimAtLeast(x, pct) == x.num * x.num * 10000 >= pct * pct * x.den2

\* the loop of lookup() over embeddingEntries from index i on: bestSim, and the
\* index of bestEntry (0 for null)
RECURSIVE BestEntry(_, _, _, _, _, _)
BestEntry(entries, i, embedding, ttl, bestSim, bestIdx) ==
    IF i > Len(entries) THEN [sim |-> bestSim, idx |-> bestIdx]
    ELSE IF entries[i].age > ttl
    THEN BestEntry(entries, i + 1, embedding, ttl, bestSim, bestIdx)
    ELSE LET sim == CosineSimilarity(embedding, entries[i].embedding)
         IN  IF SimGreater(sim, bestSim)
             THEN BestEntry(entries, i + 1, embedding, ttl, sim, i)
             ELSE BestEntry(entries, i + 1, embedding, ttl, bestSim, bestIdx)

\* _touchLRU(hash) that pushes the hash without removing it first
TouchLRU_push(c, hash) == [c EXCEPT !.accessOrder = Append(@, hash)]

\* _touchLRU(hash)
TouchLRU(c, hash) ==
    LET at == {i \in 1..Len(c.accessOrder) : c.accessOrder[i] = hash}
        idx == IF at = {} THEN 0 ELSE CHOOSE i \in at : \A j \in at : i <= j
        spliced == IF idx = 0 THEN c.accessOrder
                   ELSE SubSeq(c.accessOrder, 1, idx - 1)
                        \o SubSeq(c.accessOrder, idx + 1, Len(c.accessOrder))
    IN  [c EXCEPT !.accessOrder = Append(spliced, hash)]

\* _evictExpired()
CacheEvictExpired(c) ==
    LET dead == {h \in CacheHashes :
                    c.exactMatchMap[h] # NoEntry /\ c.exactMatchMap[h].age > c.ttlMs}
    IN  [c EXCEPT !.exactMatchMap = [h \in CacheHashes |-> IF h \in dead THEN NoEntry ELSE @[h]],
                  !.accessOrder = SelectSeq(@, LAMBDA h : h \notin dead),
                  !.embeddingEntries = SelectSeq(@, LAMBDA e : e.age <= c.ttlMs)]

Miss(c, promptHash) ==
    [ cache |-> [c EXCEPT !.stats.misses = @ + 1],
      result |-> [NoResult EXCEPT !.op = "lookup", !.hash = promptHash] ]

\* lookup(promptHash, embedding): the instance after the call, and what it returns
CacheLookup(c, promptHash, embedding) ==
    LET evicted == CacheEvictExpired([c EXCEPT !.stats.totalLookups = @ + 1])
        exact == evicted.exactMatchMap[promptHash]
    IN  IF exact # NoEntry /\ exact.age < c.ttlMs
        THEN [ cache |-> TouchLRU([evicted EXCEPT !.exactMatchMap[promptHash].hitCount = @ + 1,
                                                  !.stats.exactHits = @ + 1],
                                  promptHash),
               result |-> [ op |-> "lookup", hash |-> promptHash, hit |-> TRUE,
                            source |-> "exact", response |-> exact.response,
                            model |-> exact.model, age |-> exact.age,
                            evicted |-> 0, dropped |-> 0, replaced |-> FALSE,
                            prev |-> NoCall ] ]
        ELSE IF embedding = NoEmbedding THEN Miss(evicted, promptHash)
        ELSE LET gate == ShouldUseEmbedding(evicted)
                 best == BestEntry(gate.cache.embeddingEntries, 1, embedding, c.ttlMs,
                                   ZeroSimilarity, 0)
             IN  IF gate.use /\ best.idx # 0 /\ SimAtLeast(best.sim, c.similarityThreshold)
                 THEN LET entry == gate.cache.embeddingEntries[best.idx]
                      IN  [ cache |-> TouchLRU([gate.cache EXCEPT
                                                   !.embeddingEntries[best.idx].hitCount = @ + 1,
                                                   !.stats.semanticHits = @ + 1],
                                               entry.hash),
                            result |-> [ op |-> "lookup", hash |-> promptHash, hit |-> TRUE,
                                         source |-> "semantic", response |-> entry.response,
                                         model |-> entry.model, age |-> entry.age,
                                         evicted |-> 0, dropped |-> 0,
                                         replaced |-> FALSE, prev |-> NoCall ] ]
                 ELSE Miss(gate.cache, promptHash)

\* the loop of store() taking the most recently used entry instead
RECURSIVE EvictLRU_mru(_)
EvictLRU_mru(c) ==
    IF MapSize(c) < c.maxSize \/ c.accessOrder = << >> THEN c
    ELSE LET newestHash == c.accessOrder[Len(c.accessOrder)]
         IN  EvictLRU_mru([c EXCEPT !.accessOrder = SubSeq(@, 1, Len(@) - 1),
                                    !.exactMatchMap[newestHash] = NoEntry,
                                    !.embeddingEntries =
                                        SelectSeq(@, LAMBDA e : e.hash # newestHash)])

\* the while loop of store(): evict the least recently used entries while the map
\* is at capacity (accessOrder holds every key of the map, so shift() finds one)
RECURSIVE EvictLRU(_)
EvictLRU(c) ==
    IF MapSize(c) < c.maxSize \/ c.accessOrder = << >> THEN c
    ELSE LET oldestHash == Head(c.accessOrder)
         IN  EvictLRU([c EXCEPT !.accessOrder = Tail(@),
                                !.exactMatchMap[oldestHash] = NoEntry,
                                !.embeddingEntries =
                                    SelectSeq(@, LAMBDA e : e.hash # oldestHash)])

\* store() that keeps the entry the map already has for the hash
CacheStore_keepOld(c, promptHash, response, model, embedding) ==
    IF c.exactMatchMap[promptHash] # NoEntry THEN TouchLRU(c, promptHash)
    ELSE TouchLRU([EvictLRU(c) EXCEPT
                      !.exactMatchMap[promptHash] =
                          [response |-> response, model |-> model, age |-> 0, hitCount |-> 0]],
                  promptHash)

\* store(promptHash, response, model, embedding)
CacheStore(c, promptHash, response, model, embedding) ==
    LET room == EvictLRU(c)
        set == TouchLRU([room EXCEPT
                            !.exactMatchMap[promptHash] =
                                [response |-> response, model |-> model, age |-> 0,
                                 hitCount |-> 0]],
                        promptHash)
    IN  IF embedding = NoEmbedding THEN set
        ELSE [set EXCEPT !.embeddingEntries =
                             Append(@, [hash |-> promptHash, embedding |-> embedding,
                                        response |-> response, model |-> model,
                                        age |-> 0, hitCount |-> 0]),
                         !.stats.embeddingsComputed = @ + 1]

\* the passage of dt milliseconds, seen by the instance
AgeSemanticCache(c, dt) ==
    [c EXCEPT !.exactMatchMap =
                 [h \in CacheHashes |->
                     IF @[h] = NoEntry THEN NoEntry
                     ELSE [@[h] EXCEPT !.age = Min(@ + dt, c.ttlMs + 1)]],
              !.embeddingEntries =
                 [i \in 1..Len(@) |-> [@[i] EXCEPT !.age = Min(@ + dt, c.ttlMs + 1)]]]

(***************************************************************************)
(* server.js: POST /v1/chat/completions.  A request sits in a connection   *)
(* slot from its arrival to the 'close' of its response; pc is the await   *)
(* it is suspended at.  logs and fbs count the calls of logRequest that    *)
(* queued an entry and the updates of recordFeedback made for the request. *)
(***************************************************************************)
Slots == 1..MaxSlots

NoClass == [tier |-> "", confidencePct |-> 0, intent |-> ""]

NoError == [thrown |-> FALSE]                      \* lastError = null

IdleReq ==
    [ pc |-> "idle", tenant |-> NoTenant, stream |-> FALSE, prompt |-> "",
      strategy |-> "", cls |-> NoClass, cands |-> <<>>, pos |-> 0, tried |-> {},
      permit |-> "", age |-> 0, latency |-> 0, kind |-> "", status |-> 0,
      logs |-> 0, fbs |-> 0, lastError |-> NoError,
      aborted |-> FALSE, upstream |-> "none", sent |-> 0, abortedAt |-> 0,
      logLatency |-> 0 ]

\* a request whose handler has answered: only its tenant and what the response
\* shows are kept
Responded(r, kind, status, logs, fbs) ==
    [IdleReq EXCEPT !.pc = "responded", !.kind = kind, !.status = status,
                    !.logs = logs, !.fbs = fbs, !.stream = r.stream,
                    !.tenant = r.tenant]

\* a streaming request whose client has gone and whose handler has no callback
\* left: what answered is kept with what the stream did
Gone(r, answered, upstream) ==
    [answered EXCEPT !.pc = "gone", !.aborted = TRUE, !.upstream = upstream,
                     !.sent = r.sent, !.abortedAt = r.abortedAt,
                     !.logLatency = IF answered.logs > r.logs THEN r.age ELSE 0]

\* activeRequests--, the counter being kept at -MaxDrift from there down: the code
\* only tests it against MAX_CONCURRENT
DecActive(a) == IF a > -MaxDrift THEN a - 1 ELSE a

\* generateMockResponse(model, prompt, requestId): the token counts
MockTokens(modelId, prompt) ==
    [ inputTokens |-> (Len(prompt) + 3) \div 4,
      outputTokens |-> (159 + Len(modelId) + 3) \div 4 ]

\* step 5: the cost of a response of model i
CostOf(i, inputTokens, outputTokens) ==
    IF inputTokens = NaN \/ outputTokens = NaN THEN NaN
    ELSE inputTokens * Catalog[i].input_cost_per_1m
         + outputTokens * Catalog[i].output_cost_per_1m

\* fallbackCandidates: the selected model, then the other candidates in the order
\* of routingResult.allCandidates
FallbackCandidates(rr) ==
    <<rr.selected>> \o SelectSeq(rr.allCandidates, LAMBDA i : i # rr.selected)

\* the for loop without the test of triedProviders
RECURSIVE Fallback_retry(_, _, _, _, _)
Fallback_retry(cands, pos, tried, brs, provs) ==
    IF pos > Len(cands)
    THEN [dispatched |-> FALSE, pos |-> pos, tried |-> tried, breakers |-> brs,
          permit |-> ""]
    ELSE LET prov == Catalog[cands[pos]].provider
         IN  IF prov \notin provs
             THEN Fallback_retry(cands, pos + 1, tried, brs, provs)
             ELSE LET ce == CanExecute(brs[prov])
                      brs2 == [brs EXCEPT ![prov] = ce.breaker]
                  IN  IF ce.allowed
                      THEN [dispatched |-> TRUE, pos |-> pos,
                            tried |-> tried \cup {prov}, breakers |-> brs2,
                            permit |-> ce.reason]
                      ELSE Fallback_retry(cands, pos + 1, tried \cup {prov}, brs2, provs)

\* the for loop over fallbackCandidates from position pos on, up to the first
\* candidate whose breaker admits the call
RECURSIVE Fallback(_, _, _, _, _)
Fallback(cands, pos, tried, brs, provs) ==
    IF pos > Len(cands)
    THEN [dispatched |-> FALSE, pos |-> pos, tried |-> tried, breakers |-> brs,
          permit |-> ""]
    ELSE LET prov == Catalog[cands[pos]].provider
         IN  IF prov \notin provs \/ prov \in tried
             THEN Fallback(cands, pos + 1, tried, brs, provs)
             ELSE LET ce == CanExecute(brs[prov])
                      brs2 == [brs EXCEPT ![prov] = ce.breaker]
                  IN  IF ce.allowed
                      THEN [dispatched |-> TRUE, pos |-> pos,
                            tried |-> tried \cup {prov}, breakers |-> brs2,
                            permit |-> ce.reason]
                      ELSE Fallback(cands, pos + 1, tried \cup {prov}, brs2, provs)

(***************************************************************************)
(* server.js: the batched request log.  The rows of writeQueue are kept as *)
(* their number; db.written counts the rows the latest transaction put in  *)
(* the requests table, up to MaxRows.  Storage accepts every insert it is  *)
(* given while it is open.                                                 *)
(***************************************************************************)
MAX_WRITE_QUEUE == 1000
FlushDelayMs == 500

\* the queue depth up to which the model follows logRequest
MaxDepth == MAX_WRITE_QUEUE + 2

\* the module state logRequest and flushWriteQueue work on; said is the message
\* about degraded mode the call logs, if any
LogState == [queue |-> writeQueue, timer |-> flushTimer, degraded |-> isDegraded, said |-> ""]

\* logRequest(data) entering degraded mode at the threshold itself
LogRequest_atThreshold(q, cacheHit) ==
    IF q.degraded /\ cacheHit THEN q
    ELSE [queue |-> q.queue + 1, timer |-> TRUE,
          degraded |-> q.degraded \/ q.queue + 1 >= MAX_WRITE_QUEUE,
          said |-> IF q.queue + 1 >= MAX_WRITE_QUEUE /\ ~q.degraded THEN "degraded" ELSE ""]

\* logRequest(data): lines 510-530
LogRequest(q, cacheHit) ==
    IF q.degraded /\ cacheHit THEN q
    ELSE [queue |-> q.queue + 1, timer |-> TRUE,
          degraded |-> q.degraded \/ q.queue + 1 > MAX_WRITE_QUEUE,
          said |-> IF q.queue + 1 > MAX_WRITE_QUEUE /\ ~q.degraded THEN "degraded" ELSE ""]

\* flushWriteQueue() that stays in degraded mode
FlushWriteQueue_stayDegraded(q) ==
    [queue |-> 0, timer |-> FALSE, degraded |-> q.degraded, said |-> "", batch |-> q.queue]

\* flushWriteQueue() leaving the newest row in the queue
FlushWriteQueue_keepLast(q) ==
    LET batch == IF q.queue > 0 THEN q.queue - 1 ELSE 0
        rest == q.queue - batch
        recovers == q.degraded /\ rest < MAX_WRITE_QUEUE \div 2
    IN  [queue |-> rest, timer |-> FALSE, degraded |-> q.degraded /\ ~recovers,
         said |-> IF recovers THEN "recovered" ELSE "", batch |-> batch]

\* flushWriteQueue(): lines 532-541, the state it leaves and the batch it took
FlushWriteQueue(q) ==
    LET batch == q.queue
        rest == q.queue - batch
        recovers == q.degraded /\ rest < MAX_WRITE_QUEUE \div 2
    IN  [queue |-> rest, timer |-> FALSE, degraded |-> q.degraded /\ ~recovers,
         said |-> IF recovers THEN "recovered" ELSE "", batch |-> batch]

\* insert(batch): lines 543-579, one transaction; on a closed handle it throws and
\* the batch is lost
Insert(d, batch) ==
    IF batch = 0 THEN d
    ELSE IF d.open THEN [d EXCEPT !.written = Min(batch, MaxRows)]
    ELSE [d EXCEPT !.written = 0]

\* logger.warn / logger.info of the message m
Says(pr, m) == IF m = "" THEN pr ELSE [pr EXCEPT !.said = m]

Running == proc.pc = "running"

\* no row is waiting for the flush timer
Quiet == writeQueue = 0 /\ ~flushTimer

\* a step of the handler of connection s: the call of logRequest it makes, if any
HandlerLogs(s) ==
    /\ Running
    /\ \E q \in {IF reqs'[s].logs > reqs[s].logs
                 THEN LogRequest(LogState, reqs'[s].kind = "cache") ELSE LogState} :
          /\ q.queue <= MaxDepth
          /\ writeQueue' = q.queue
          /\ flushTimer' = q.timer
          /\ isDegraded' = q.degraded
          /\ proc' = Says(proc, q.said)
    /\ UNCHANGED db

\* a step of the running process that does not log
NoLog == Running /\ UNCHANGED queueVars

\* the flush timer fires: flushWriteQueue()
FlushTimerFires ==
    /\ Running
    /\ flushTimer
    /\ \E f \in {FlushWriteQueue(LogState)} :
          /\ writeQueue' = f.queue
          /\ flushTimer' = f.timer
          /\ isDegraded' = f.degraded
          /\ db' = Insert(db, f.batch)
          /\ proc' = Says(proc, f.said)
    /\ UNCHANGED <<breakerVars, limitVars, serverVars, libVars>>

\* the handler of SIGTERM / SIGINT closing storage first
ShutdownOrder_closeFirst ==
    [ running |-> [stmt |-> "db.close", next |-> "flushed"],
      flushed |-> [stmt |-> "rlEngine.stop", next |-> "rlStopped"],
      rlStopped |-> [stmt |-> "benchmarker.stop", next |-> "bmStopped"],
      bmStopped |-> [stmt |-> "flushWriteQueue", next |-> "closed"],
      closed |-> [stmt |-> "process.exit", next |-> "exited"] ]

\* the handler of SIGTERM / SIGINT (lines 743-759): the statement the process at pc
\* runs next, and the pc that statement leaves
ShutdownOrder ==
    [ running |-> [stmt |-> "flushWriteQueue", next |-> "flushed"],
      flushed |-> [stmt |-> "rlEngine.stop", next |-> "rlStopped"],
      rlStopped |-> [stmt |-> "benchmarker.stop", next |-> "bmStopped"],
      bmStopped |-> [stmt |-> "db.close", next |-> "closed"],
      closed |-> [stmt |-> "process.exit", next |-> "exited"] ]

\* the signal handler runs its next statement; it is synchronous, so nothing else
\* runs once it has begun
ShutdownStep ==
    /\ proc.pc \in DOMAIN ShutdownOrder
    /\ \E st \in {ShutdownOrder[proc.pc]}, f \in {FlushWriteQueue(LogState)} :
          IF st.stmt = "flushWriteQueue"
          THEN /\ writeQueue' = f.queue
               /\ flushTimer' = f.timer
               /\ isDegraded' = f.degraded
               /\ db' = Insert(db, f.batch)
               /\ proc' = [Says(proc, f.said) EXCEPT !.pc = st.next]
          ELSE /\ db' = IF st.stmt = "db.close" THEN [db EXCEPT !.open = FALSE] ELSE db
               /\ proc' = [proc EXCEPT
                             !.pc = st.next,
                             !.rlTimer = IF st.stmt = "rlEngine.stop" THEN FALSE ELSE @,
                             !.bmTimer = IF st.stmt = "benchmarker.stop" THEN FALSE ELSE @]
               /\ UNCHANGED <<writeQueue, flushTimer, isDegraded>>
    /\ UNCHANGED <<breakerVars, limitVars, serverVars, libVars>>

(***************************************************************************)
(* The breaker by itself: calls of its methods in any order, as the        *)
(* requests in flight on one provider make them.                           *)
(***************************************************************************)
TickMs == windowMs

\* what a provider call can end with: (success, latencyMs, timedOut)
Outcomes ==
    { [success |-> TRUE,  latencyMs |-> 100,   timedOut |-> FALSE],
      [success |-> TRUE,  latencyMs |-> 30000, timedOut |-> FALSE],
      [success |-> FALSE, latencyMs |-> 100,   timedOut |-> FALSE],
      [success |-> FALSE, latencyMs |-> 30000, timedOut |-> TRUE] }

(***************************************************************************)
(* services/rlEngine.js.  alpha and beta are kept in units of 1/1000 and   *)
(* rewards in units of 1/100, so that the dampened update  0.1 * reward    *)
(* is the whole number  reward.                                            *)
(***************************************************************************)
AlphaUnit == 1000
RewardUnit == 100
dampeningFactorPct == 10
maxWindowSize == 200

\* reward * this.dampeningFactor
Dampen(reward) == (reward * dampeningFactorPct * AlphaUnit) \div (100 * RewardUnit)

\* _initWeights()
InitWeights == [id \in ModelIds |-> [alpha |-> AlphaUnit, beta |-> AlphaUnit]]

NoWeights == [absent |-> TRUE]          \* !tenantWeights.has(tenantId)

NoRlCall == [op |-> "none", modelId |-> "", tenantId |-> NoTenant.id, status |-> 0]

\* new RLEngine(modelIds) whose global weights are global
RLEngine(global) ==
    [ globalWeights |-> global,
      tenantWeights |-> [t \in TenantIds |-> NoWeights],
      calls |-> 0,
      last |-> NoRlCall ]

\* _getTenantWeights(tenantId): the instance once the tenant has its weights
WithTenantWeights(e, tenantId) ==
    IF tenantId = NoTenant.id \/ e.tenantWeights[tenantId] # NoWeights THEN e
    ELSE [e EXCEPT !.tenantWeights[tenantId] = InitWeights]

\* the weights recordFeedback works on
WeightsOf(e, tenantId) ==
    IF tenantId = NoTenant.id THEN e.globalWeights ELSE e.tenantWeights[tenantId]

\* the update of one posterior by recordFeedback, rescaled above the window
UpdatePosterior(w, reward) ==
    LET alpha == w.alpha + Dampen(reward)
        beta == w.beta + Dampen(RewardUnit - reward)
        total == alpha + beta
        over == total - maxWindowSize * AlphaUnit
    IN  IF over > 0                      \* x * (W / total) = x - x * over / total
        THEN [ alpha |-> alpha + ((0 - alpha * over) \div total),
               beta |-> beta + ((0 - beta * over) \div total) ]
        ELSE [alpha |-> alpha, beta |-> beta]

\* recordFeedback(modelId, reward, tenantId)
RecordFeedback(e, modelId, reward, tenantId) ==
    LET e1 == WithTenantWeights(e, tenantId)
        w == WeightsOf(e1, tenantId)
    IN  IF modelId \notin ModelIds THEN e1
        ELSE IF tenantId = NoTenant.id
        THEN [e1 EXCEPT !.globalWeights[modelId] = UpdatePosterior(w[modelId], reward)]
        ELSE [e1 EXCEPT !.tenantWeights[tenantId][modelId] = UpdatePosterior(w[modelId], reward)]

\* _computeReward(feedback) on a row of routing_feedback
ComputeReward(fb) ==
    LET success == IF fb.success = 1 THEN 40 ELSE 0
        quality == IF fb.quality_score = Null THEN 0
                   ELSE (Min(fb.quality_score * 10, RewardUnit) * 3) \div 10
        latency == IF fb.latency_ms = Null THEN 0
                   ELSE (Max(0, RewardUnit - fb.latency_ms \div 300) * 2) \div 10
        cost == IF fb.cost = Null THEN 0
                ELSE Max(0, RewardUnit - fb.cost \div 10000) \div 10
    IN  Min(success + quality + latency + cost, RewardUnit)

\* the loop of recomputeFromDB over the rows from index i on
RECURSIVE AddRows(_, _, _)
AddRows(weights, rows, i) ==
    IF i > Len(rows) THEN weights
    ELSE IF rows[i].model_id \notin ModelIds THEN AddRows(weights, rows, i + 1)
    ELSE LET reward == ComputeReward(rows[i])
         IN  AddRows([weights EXCEPT ![rows[i].model_id] =
                         [ alpha |-> @.alpha + Dampen(reward),
                           beta |-> @.beta + Dampen(RewardUnit - reward) ]],
                     rows, i + 1)

\* recomputeFromDB(feedbackRows)
RecomputeFromDB(e, feedbackRows) ==
    IF feedbackRows = << >> THEN e
    ELSE [e EXCEPT !.globalWeights = AddRows(InitWeights, feedbackRows, 1)]

(***************************************************************************)
(* providers/openai.js: AnthropicProvider.chatCompletionStream             *)
(*                                                                         *)
(* The upstream body is a sequence of pieces: a line "event: <type>", the  *)
(* two halves of a line "data: <json>" around the text of a delta, the     *)
(* newline, and the two bytes of a character outside ASCII.  A network     *)
(* chunk is any run of consecutive pieces, so a chunk may end inside a     *)
(* line and inside a character.                                            *)
(***************************************************************************)
NoEvent == [type |-> "", text |-> "", tokens |-> 0]
NewLine == [k |-> "nl", part |-> 0, ev |-> NoEvent]

\* a text of one character that takes two bytes in UTF-8, its bytes, the
\* character once decoded, and U+FFFD
TwoByteText == "C3A9"
ReplacedText == "FFFD FFFD"
LeadByte == [k |-> "byte", part |-> 1, ev |-> NoEvent]
TrailByte == [k |-> "byte", part |-> 2, ev |-> NoEvent]
Character == [k |-> "char", part |-> 0, ev |-> NoEvent]
Replacement == [k |-> "char", part |-> 1, ev |-> NoEvent]

\* the events of the Messages stream that the translator reads
MessageStart == [type |-> "message_start", text |-> "", tokens |-> 3]
ContentBlockDelta(text) == [type |-> "content_block_delta", text |-> text, tokens |-> 0]
MessageDelta == [type |-> "message_delta", text |-> "", tokens |-> 5]
MessageStop == [type |-> "message_stop", text |-> "", tokens |-> 0]

\* "event: <type>\ndata: <json>\n\n" in UTF-8
EventBytes(ev) ==
    << [k |-> "event", part |-> 0, ev |-> ev], NewLine,
       [k |-> "data", part |-> 1, ev |-> ev] >>
    \o (IF ev.text = TwoByteText THEN <<LeadByte, TrailByte>> ELSE << >>)
    \o << [k |-> "data", part |-> 2, ev |-> ev], NewLine, NewLine >>

\* chunk.toString(): the bytes of the chunk decoded by themselves, a byte of a
\* character whose other byte is not in the chunk becoming U+FFFD
RECURSIVE ChunkToString(_, _)
ChunkToString(chunk, i) ==
    IF i > Len(chunk) THEN << >>
    ELSE IF chunk[i] = LeadByte /\ i < Len(chunk) /\ chunk[i + 1] = TrailByte
    THEN <<Character>> \o ChunkToString(chunk, i + 2)
    ELSE IF chunk[i].k = "byte" THEN <<Replacement>> \o ChunkToString(chunk, i + 1)
    ELSE <<chunk[i]>> \o ChunkToString(chunk, i + 1)

RECURSIVE Wire(_, _)
Wire(events, i) ==
    IF i > Len(events) THEN << >> ELSE EventBytes(events[i]) \o Wire(events, i + 1)

\* buffer.split('\n'): the lines, the last one being what follows the last newline
RECURSIVE SplitLines(_, _, _, _)
SplitLines(bytes, i, line, lines) ==
    IF i > Len(bytes) THEN Append(lines, line)
    ELSE IF bytes[i].k = "nl" THEN SplitLines(bytes, i + 1, << >>, Append(lines, line))
    ELSE SplitLines(bytes, i + 1, Append(line, bytes[i]), lines)

\* line.startsWith('data: ')
StartsWithData(line) == line # << >> /\ line[1].k = "data" /\ line[1].part = 1

\* JSON.parse(line.slice(6).trim()): NoEvent when it throws; the text of the
\* event is made of the characters the line has between its two halves
ParseEvent(line) ==
    LET last == line[Len(line)]
        inner == SubSeq(line, 2, Len(line) - 1)
    IN  IF /\ Len(line) >= 2
           /\ last.k = "data" /\ last.part = 2 /\ last.ev = line[1].ev
           /\ \A i \in 1..Len(inner) : inner[i].k = "char"
        THEN IF inner = << >> THEN line[1].ev
             ELSE IF inner = <<Character>> THEN [line[1].ev EXCEPT !.text = TwoByteText]
             ELSE [line[1].ev EXCEPT !.text = ReplacedText]
        ELSE NoEvent

ContentChunk(text) ==
    [data |-> "chunk", content |-> text, finish_reason |-> "null",
     prompt_tokens |-> 0, completion_tokens |-> 0]
FinalChunk(inputTokens, outputTokens) ==
    [data |-> "chunk", content |-> "", finish_reason |-> "stop",
     prompt_tokens |-> inputTokens, completion_tokens |-> outputTokens]
Done == [data |-> "[DONE]", content |-> "", finish_reason |-> "",
         prompt_tokens |-> 0, completion_tokens |-> 0]

\* the body of the loop over the lines: lines 218-269; message_start and
\* message_delta carry their usage, as every event of that type does
TranslateLine(t, line) ==
    IF ~StartsWithData(line) THEN t
    ELSE \* the four tests are on event.type, at most one of them passes
         CASE ParseEvent(line).type = "message_start" ->
                  [t EXCEPT !.inputTokens = ParseEvent(line).tokens]
           [] ParseEvent(line).type = "content_block_delta" /\ ParseEvent(line).text # "" ->
                  [t EXCEPT !.pushed = Append(@, ContentChunk(ParseEvent(line).text))]
           [] ParseEvent(line).type = "message_delta" ->
                  [t EXCEPT !.outputTokens = ParseEvent(line).tokens,
                            !.pushed = Append(@, FinalChunk(t.inputTokens,
                                                            ParseEvent(line).tokens))]
           [] ParseEvent(line).type = "message_stop" ->
                  [t EXCEPT !.pushed = Append(@, Done)]
           [] OTHER -> t

RECURSIVE TranslateLines(_, _, _)
TranslateLines(t, lines, i) ==
    IF i >= Len(lines) THEN t
    ELSE TranslateLines(TranslateLine(t, lines[i]), lines, i + 1)

\* transform(chunk) that forgets the incomplete line of the chunk before
Transform_noBuffer(t, chunk) ==
    LET lines == SplitLines(ChunkToString(chunk, 1), 1, << >>, << >>)
    IN  [TranslateLines(t, lines, 1) EXCEPT !.buffer = lines[Len(lines)]]

\* transform(chunk, encoding, callback): lines 211-271; every line but the last
\* is translated and the last one is kept in buffer
Transform(t, chunk) ==
    LET lines == SplitLines(t.buffer \o ChunkToString(chunk, 1), 1, << >>, << >>)
    IN  [TranslateLines(t, lines, 1) EXCEPT !.buffer = lines[Len(lines)]]

\* flush(callback): lines 272-278, nothing is pushed
Flush(t) == [t EXCEPT !.ended = TRUE]

\* no stream of the provider is open
NoTransformer ==
    [ open |-> FALSE, events |-> << >>, upstream |-> << >>, buffer |-> << >>,
      inputTokens |-> 0, outputTokens |-> 0, pushed |-> << >>, held |-> FALSE,
      ended |-> FALSE ]

\* routeRequest has not been called
(***************************************************************************)
(* classifier.js: the complexity classifier.  A feature is kept in         *)
(* hundredths (100 is the feature value 1), a weight in hundredths, so the *)
(* weighted sum is kept in ten-thousandths of rawScore.                    *)
(***************************************************************************)
TIERS == <<"trivial", "simple", "moderate", "complex", "expert">>

FeatureNames ==
    {"charCount", "wordCount", "sentenceCount", "avgWordLength", "avgSentenceLength",
     "typeTokenRatio", "codeIndicator", "questionDepth", "structuralComplexity",
     "techDensity", "reasoningDensity", "specificity", "hasPriorReference",
     "numericalDensity", "hasLargeNumbers"}

\* extractFeatures(prompt): every component is normalised into [0, 1]; the
\* vectors taken here have each component at 0 or 1, and codeIndicator, which
\* the code sets to 0, 0.5 or 1, at any of its three values
FeatureVectors ==
    { [f EXCEPT !.codeIndicator = c] : f \in [FeatureNames -> {0, 100}], c \in {0, 50, 100} }

NoFeatures == [k \in FeatureNames |-> 0]

weights ==
    [charCount |-> 10, wordCount |-> 8, sentenceCount |-> 5, avgWordLength |-> 5,
     avgSentenceLength |-> 5, typeTokenRatio |-> 3, codeIndicator |-> 15,
     questionDepth |-> 8, structuralComplexity |-> 6, techDensity |-> 12,
     reasoningDensity |-> 10, specificity |-> 5, hasPriorReference |-> 2,
     numericalDensity |-> 3, hasLargeNumbers |-> 3]

\* rawScore, the sum of features[key] * weight over the fifteen keys
RawScore(features) ==
      features.charCount * weights.charCount
    + features.wordCount * weights.wordCount
    + features.sentenceCount * weights.sentenceCount
    + features.avgWordLength * weights.avgWordLength
    + features.avgSentenceLength * weights.avgSentenceLength
    + features.typeTokenRatio * weights.typeTokenRatio
    + features.codeIndicator * weights.codeIndicator
    + features.questionDepth * weights.questionDepth
    + features.structuralComplexity * weights.structuralComplexity
    + features.techDensity * weights.techDensity
    + features.reasoningDensity * weights.reasoningDensity
    + features.specificity * weights.specificity
    + features.hasPriorReference * weights.hasPriorReference
    + features.numericalDensity * weights.numericalDensity
    + features.hasLargeNumbers * weights.hasLargeNumbers

\* Math.round(rawScore * 100): the sum is computed in binary floating point, so a
\* sum that is exactly halfway between two integers is rounded to either
\* (0.075 + 0.05 + 0.02 is 14.499999999999998 after the multiplication)
Rounded(raw) ==
    IF raw % 100 = 50 THEN {raw \div 100, raw \div 100 + 1} ELSE {(raw + 50) \div 100}

\* a variant whose comparisons are strict
TierIndex_strict(score) ==
    IF score < 10 THEN 0
    ELSE IF score < 25 THEN 1
    ELSE IF score < 50 THEN 2
    ELSE IF score < 75 THEN 3
    ELSE 4

\* the tier of a score: the if-chain of heuristicClassify
TierIndex(score) ==
    IF score <= 10 THEN 0
    ELSE IF score <= 25 THEN 1
    ELSE IF score <= 50 THEN 2
    ELSE IF score <= 75 THEN 3
    ELSE 4

HeuristicConfidence == 65

\* heuristicClassify(features), rounded being Math.round(rawScore * 100)
HeuristicClassify(features, rounded) ==
    [tier |-> TIERS[TierIndex(Min(rounded, 100)) + 1], score |-> Min(rounded, 100),
     confidence |-> HeuristicConfidence, method |-> "heuristic"]

\* results.probabilities.data of the learned classifier: one probability per
\* tier, in hundredths
Probabilities == { <<0, 0, 0, 0, 100>>, <<20, 20, 20, 20, 20>>, <<10, 15, 40, 25, 10>> }

\* the loop of onnxClassify that finds the first largest probability, from index i on
RECURSIVE MaxIdx(_, _, _)
MaxIdx(probabilities, i, maxIdx) ==
    IF i > Len(probabilities) THEN maxIdx
    ELSE IF probabilities[i] > probabilities[maxIdx]
         THEN MaxIdx(probabilities, i + 1, i)
         ELSE MaxIdx(probabilities, i + 1, maxIdx)

\* what onnxClassify returns after a run that gave these probabilities
OnnxClassify(probabilities) ==
    [tier |-> TIERS[MaxIdx(probabilities, 2, 1)],
     score |-> probabilities[MaxIdx(probabilities, 2, 1)],
     confidence |-> probabilities[MaxIdx(probabilities, 2, 1)], method |-> "onnx"]

NoClassification == [tier |-> "", score |-> 0, confidence |-> 0, method |-> ""]

\* the module before loadOnnxModel and before any call of classify
NoClassifier ==
    [loaded |-> FALSE, onnxReady |-> FALSE, pc |-> "idle", features |-> NoFeatures,
     failed |-> FALSE, result |-> NoClassification]

(***************************************************************************)
(* BaseProvider: request(method, url, data, headers, options), the retry   *)
(* loop around the HTTP client.                                            *)
(***************************************************************************)
\* an option that is not given (undefined)
NoOption == -1

\* the largest maxRetries given in a config or in the options of a call
MaxRetriesOption == 2

RetryOptions == {NoOption} \cup 0..MaxRetriesOption

\* this.maxRetries = config.maxRetries || 2
DefaultMaxRetries == 2

\* how one call of this.client.request settles: with a response of status 2xx,
\* with an error that carries the response of another status, or with an error
\* without a response (status 0) and its code
HttpOutcomes ==
    {[ok |-> TRUE, status |-> 200, code |-> ""]}
    \cup {[ok |-> FALSE, status |-> st, code |-> "ERR_BAD_REQUEST"] : st \in {400, 401, 404, 429}}
    \cup {[ok |-> FALSE, status |-> st, code |-> "ERR_BAD_RESPONSE"] : st \in {500, 503}}
    \cup {[ok |-> FALSE, status |-> 0, code |-> c] : c \in {"ECONNABORTED", "ECONNRESET"}}

NoOutcome == [ok |-> FALSE, status |-> 0, code |-> ""]

NoProviderError == [provider |-> "", status |-> 0, timedOut |-> FALSE, attempt |-> 0]

\* _wrapError(err, attempt)
WrapError(name, err, attempt) ==
    [provider |-> name, status |-> err.status,
     timedOut |-> err.code \in {"ECONNABORTED", "ETIMEDOUT"}, attempt |-> attempt]

\* a variant that retries after every error
NoRetry_never(status) == FALSE

\* the test of the catch block: a 4xx other than 429 is not retried
NoRetry(status) == status # 0 /\ status >= 400 /\ status < 500 /\ status # 429

\* Math.min(1000 * Math.pow(2, attempt), 10000), the backoff before the jitter
Backoff(attempt) == Min(1000 * 2 ^ attempt, 10000)

\* new BaseProvider(name, config), and no call of request yet
BaseProvider(configMaxRetries) ==
    [name |-> "base",
     maxRetries |-> IF configMaxRetries \in {NoOption, 0} THEN DefaultMaxRetries
                    ELSE configMaxRetries,
     pc |-> "idle", option |-> NoOption, maxRetriesOfCall |-> 0, attempt |-> 0,
     sent |-> 0, lastError |-> NoOutcome, backoff |-> 0, returned |-> 0,
     thrown |-> NoProviderError]

\* the catch block and what follows it, after the attempt failed with err
RequestCatch(b, err) ==
    IF NoRetry(err.status)
    THEN [b EXCEPT !.pc = "thrown", !.lastError = err,
                   !.thrown = WrapError(b.name, err, b.attempt)]
    ELSE IF b.attempt < b.maxRetriesOfCall
    THEN [b EXCEPT !.pc = "backoff", !.lastError = err, !.backoff = Backoff(b.attempt)]
    ELSE [b EXCEPT !.pc = "thrown", !.lastError = err, !.attempt = @ + 1,
                   !.thrown = WrapError(b.name, err, b.maxRetriesOfCall)]

NoRouting ==
    [ called |-> FALSE,
      classification |-> [tier |-> "", confidencePct |-> 0, intent |-> ""],
      strategy |-> "", rlScores |-> << >>, benchmarkMetrics |-> << >>,
      breakerStates |-> << >>, tenantAllowedModels |-> NoAllowlist,
      result |-> NoRoute, again |-> NoRoute ]

\* the server once started with the provider keys of provs in its environment;
\* initializeBreakers(providerNames) makes one breaker per provider of the catalog
BootAll(provs, sc, rl) ==
    /\ providers = provs
    /\ breakers = [p \in AllProviders |-> CircuitBreaker]
    /\ activeRequests = 0
    /\ buckets = [t \in TenantIds |-> NoBucket]
    /\ inFlight = 0
    /\ finishing = 0
    /\ lastMw = [key |-> NoKey, tenant |-> NoTenant.id, status |-> 0, code |-> "none"]
    /\ tenants = TenantRows
    /\ tenantCache = [h \in KeyHashes |-> NoTenant]
    /\ cache = [h \in CacheKeys |-> NoEntry]
    /\ reqs = [s \in Slots |-> IdleReq]
    /\ writeQueue = 0
    /\ flushTimer = FALSE
    /\ isDegraded = FALSE
    /\ db = [open |-> TRUE, written |-> 0]
    /\ proc = [pc |-> "running", rlTimer |-> TRUE, bmTimer |-> TRUE, said |-> ""]
    /\ semanticCache = sc
    /\ routing = NoRouting
    /\ rlEngine = rl
    /\ routingFeedback = << >>
    /\ transformer = NoTransformer
    /\ classifier = NoClassifier
    /\ baseProvider = BaseProvider(NoOption)

\* the same with a bandit that has seen no feedback
BootWith(provs, sc) == BootAll(provs, sc, RLEngine(InitWeights))

\* the process of a server whose cache instance nobody else uses
Boot(provs) == BootWith(provs, SemanticCache(CHOOSE o \in CacheOptions : TRUE, NewStats))

\* no provider key: MOCK_MODE
Init == Boot({})

BreakerCanExecute(p) ==
    /\ breakers' = [breakers EXCEPT ![p] = CanExecute(@).breaker]
    /\ UNCHANGED <<limitVars, serverVars, queueVars, libVars>>

BreakerRecordResult(p, o) ==
    /\ Len(breakers[p].events) < MaxEvents
    /\ o.success \/ breakers[p].consecutiveFailures < MaxFailures
    /\ breakers' = [breakers EXCEPT
                      ![p] = RecordResult(@, o.success, o.latencyMs, o.timedOut)]
    /\ UNCHANGED <<limitVars, serverVars, queueVars, libVars>>

BreakerGetMetrics(p) ==
    /\ breakers' = [breakers EXCEPT ![p] = GetMetrics(@)]
    /\ UNCHANGED <<limitVars, serverVars, queueVars, libVars>>

BreakerTick ==
    /\ breakers' = [p \in AllProviders |-> AgeBreaker(breakers[p], TickMs)]
    /\ UNCHANGED <<limitVars, serverVars, queueVars, libVars>>

NextBreaker ==
    \/ BreakerCanExecute("openai")
    \/ \E o \in Outcomes : BreakerRecordResult("openai", o)
    \/ BreakerGetMetrics("openai")
    \/ BreakerTick

SpecBreaker == Init /\ [][NextBreaker]_vars

(***************************************************************************)
(* The breaker of one provider followed through an outage and its probe:   *)
(* calls fail fast or succeed fast until the circuit opens, and succeed    *)
(* from then on: the provider has recovered.  While the circuit is open    *)
(* time passes in steps of the base cooldown until the cooldown is over,   *)
(* so that the failures that opened the circuit are still in the window    *)
(* when the probe is admitted.                                             *)
(***************************************************************************)
ProbeOutcomes == {o \in Outcomes : o.latencyMs < p95LatencyThreshold /\ ~o.timedOut}

RecloseRecordResult(p, o) ==
    /\ Len(breakers[p].events) < MaxProbeEvents
    /\ o.success \/ breakers[p].consecutiveFailures < MaxFailures
    /\ o.success \/ breakers[p].openedAgo = NotOpened
    /\ breakers' = [breakers EXCEPT
                      ![p] = RecordResult(@, o.success, o.latencyMs, o.timedOut)]
    /\ UNCHANGED <<limitVars, serverVars, queueVars, libVars>>

RecloseTick ==
    /\ \E p \in AllProviders :
          breakers[p].state = OPEN /\ breakers[p].openedAgo < breakers[p].cooldownMs
    /\ breakers' = [p \in AllProviders |-> AgeBreaker(breakers[p], baseCooldownMs)]
    /\ UNCHANGED <<limitVars, serverVars, queueVars, libVars>>

NextReclose ==
    \/ BreakerCanExecute("openai")
    \/ \E o \in ProbeOutcomes : RecloseRecordResult("openai", o)
    \/ RecloseTick

SpecReclose == Init /\ [][NextReclose]_vars

(***************************************************************************)
(* The rate-limit middleware by itself, under any route: requests arrive,  *)
(* and the responses of the admitted ones emit 'finish' and then 'close',  *)
(* or 'close' alone when the connection is lost first.                     *)
(***************************************************************************)
LimitTickMs == RefillPeriodMs \div 4

\* req.tenant as the auth middleware leaves it
LimitTenants == {NoTenant, [id |-> "t1", rate_limit_rpm |-> 2]}

\* (req, res, next) => ...: lines 65-112
MwRequest(tenant) ==
    LET r == RateLimit(activeRequests, buckets, tenant)
    IN  /\ activeRequests' = r.active
        /\ buckets' = r.buckets
        /\ inFlight' = IF r.admitted THEN inFlight + 1 ELSE inFlight
        /\ lastMw' = [key |-> NoKey, tenant |-> tenant.id,
                      status |-> r.status, code |-> r.code]
        /\ UNCHANGED <<finishing, breakerVars, serverVars, queueVars, libVars>>

\* res.on('finish', () => { activeRequests--; })
ResFinish ==
    /\ inFlight > 0
    /\ (inFlight - activeRequests) + finishing < MaxDrift
    /\ activeRequests' = activeRequests - 1
    /\ inFlight' = inFlight - 1
    /\ finishing' = finishing + 1
    /\ UNCHANGED <<buckets, lastMw, breakerVars, serverVars, queueVars, libVars>>

\* res.on('close', () => { activeRequests--; }) on a response that has finished
ResCloseAfterFinish ==
    /\ finishing > 0
    /\ activeRequests' = activeRequests - 1
    /\ finishing' = finishing - 1
    /\ UNCHANGED <<inFlight, buckets, lastMw, breakerVars, serverVars, queueVars, libVars>>

\* res.on('close', () => { activeRequests--; }) on a connection lost before the end
ResCloseAborted ==
    /\ inFlight > 0
    /\ activeRequests' = activeRequests - 1
    /\ inFlight' = inFlight - 1
    /\ UNCHANGED <<finishing, buckets, lastMw, breakerVars, serverVars, queueVars, libVars>>

LimitTick ==
    /\ buckets' = [t \in TenantIds |-> AgeBucket(buckets[t], LimitTickMs)]
    /\ UNCHANGED <<activeRequests, inFlight, finishing, lastMw, breakerVars, serverVars, queueVars, libVars>>

NextLimit ==
    \/ \E tenant \in LimitTenants : MwRequest(tenant)
    \/ ResFinish
    \/ ResCloseAfterFinish
    \/ ResCloseAborted
    \/ LimitTick

SpecLimit == Init /\ [][NextLimit]_vars

(***************************************************************************)
(* The completion endpoint behind the two middlewares                      *)
(***************************************************************************)

\* Finish without the call of rlEngine.recordFeedback
Finish_noFeedback(r, i, inputTokens, outputTokens, kind, c, tDb, tCache) ==
    LET cost == CostOf(i, inputTokens, outputTokens)
        u == TrackUsage(tDb, tCache, r.tenant.id, cost)
    IN  [ req |-> Responded(r, kind, 200, r.logs + 1, r.fbs),
          cache |-> IF kind \in {"mock", "provider"} /\ ~r.stream
                    THEN Store(c, HashPrompt(r.prompt), Catalog[i].id) ELSE c,
          tenants |-> u.tenants,
          tenantCache |-> u.tenantCache ]

\* steps 5 to 8 of the handler, and the 'end' listener of a stream: cost, cache
\* store, logRequest, trackUsage, recordFeedback and the response
Finish(r, i, inputTokens, outputTokens, kind, c, tDb, tCache) ==
    LET cost == CostOf(i, inputTokens, outputTokens)
        u == TrackUsage(tDb, tCache, r.tenant.id, cost)
    IN  [ req |-> Responded(r, kind, 200, r.logs + 1, r.fbs + 1),
          cache |-> IF kind \in {"mock", "provider"} /\ ~r.stream
                    THEN Store(c, HashPrompt(r.prompt), Catalog[i].id) ELSE c,
          tenants |-> u.tenants,
          tenantCache |-> u.tenantCache ]

\* a request arrives on connection s: auth, rate limit, and the handler up to
\* its first await (lines 140-180)
Receive(s, k, body) ==
    /\ reqs[s].pc = "idle"
    /\ LET a == Auth(k, tenantCache, tenants)
           rl == RateLimit(activeRequests, buckets, a.tenant)
           admitted == a.status = 0 /\ rl.admitted
           strategy == IF a.tenant # NoTenant /\ a.tenant.strategy # ""
                       THEN a.tenant.strategy
                       ELSE IF body.strategy # "" THEN body.strategy ELSE "cost-first"
           lk == Lookup(cache, HashPrompt(body.prompt))
           r == [IdleReq EXCEPT !.tenant = a.tenant, !.stream = body.stream,
                                !.prompt = body.prompt, !.strategy = strategy]
       IN  /\ tenantCache' = a.tenantCache
           /\ lastMw' = IF a.status # 0
                        THEN [key |-> k, tenant |-> NoTenant.id,
                              status |-> a.status, code |-> a.code]
                        ELSE [key |-> k, tenant |-> a.tenant.id,
                              status |-> rl.status, code |-> rl.code]
           /\ buckets' = IF a.status = 0 THEN rl.buckets ELSE buckets
           /\ activeRequests' = IF admitted THEN rl.active ELSE activeRequests
           /\ inFlight' = IF admitted THEN inFlight + 1 ELSE inFlight
           /\ cache' = IF admitted /\ body.prompt # "" THEN lk.cache ELSE cache
           /\ reqs' = [reqs EXCEPT ![s] =
                         IF ~admitted THEN @
                         ELSE IF body.prompt = "" THEN Responded(r, "invalid", 400, 0, 0)
                         ELSE IF lk.hit /\ ~body.stream THEN Responded(r, "cache", 200, 1, 0)
                         ELSE [r EXCEPT !.pc = "classify"]]
    /\ UNCHANGED <<breakers, finishing, providers, tenants>>
    /\ UNCHANGED libVars
    /\ HandlerLogs(s)

\* what classify(), rlEngine.getScores() and benchmarker.getAllMetrics() return
ClsInputs ==
    { [tier |-> "expert", confidencePct |-> 90, intent |-> "code"],
      [tier |-> "simple", confidencePct |-> 90, intent |-> "qa"] }

\* classify() on the prompts of an expert
ProbeCls == {[tier |-> "expert", confidencePct |-> 90, intent |-> "code"]}

RlInputs == {[id \in ModelIds |-> 500]}

BmInputs == {[id \in ModelIds |-> NoBenchmark]}

\* the strategies and allowlists the handler passes to routeRequest
RouteStrategies == {"cost-first", "performance-first", "balanced"}
RouteAllowlists == {NoAllowlist} \cup {TenantRows[t].allowedModels : t \in DOMAIN TenantRows}

\* routeRequest on the inputs the handler passes it
RouteTable ==
    Table([x \in [cls : ClsInputs, strategy : RouteStrategies, rl : RlInputs,
                  bm : BmInputs, states : [AllProviders -> STATES],
                  allow : RouteAllowlists]
             |-> RouteRequest(x.cls, x.strategy, x.rl, x.bm, x.states, x.allow)])

\* classify(prompt) resolves with cls: routing, then the mock answer, the start
\* of the stream, or the fallback loop up to its first call (lines 180-252)
Classified(s, cls, rlScores, benchmarkMetrics) ==
    /\ reqs[s].pc = "classify"
    /\ \E r \in {reqs[s]}, pruned \in {[p \in AllProviders |-> GetMetrics(breakers[p])]} :
       \E rr \in {RouteTable[[cls |-> cls, strategy |-> r.strategy, rl |-> rlScores,
                              bm |-> benchmarkMetrics,
                              states |-> [p \in AllProviders |-> pruned[p].state],
                              allow |-> IF r.tenant = NoTenant THEN NoAllowlist
                                        ELSE r.tenant.allowedModels]]} :
       \E prov \in {Catalog[rr.selected].provider} :
          IF prov \notin providers
          THEN \E fin \in {Finish(r, rr.selected,
                                  MockTokens(rr.selectedModelId, r.prompt).inputTokens,
                                  MockTokens(rr.selectedModelId, r.prompt).outputTokens,
                                  "mock", cache, tenants, tenantCache)} :
                  /\ reqs' = [reqs EXCEPT ![s] = fin.req]
                  /\ cache' = fin.cache
                  /\ tenants' = fin.tenants
                  /\ tenantCache' = fin.tenantCache
                  /\ breakers' = pruned
          ELSE IF r.stream
          THEN \E ce \in {CanExecute(pruned[prov])} :
                  /\ breakers' = [pruned EXCEPT ![prov] = ce.breaker]
                  /\ reqs' = [reqs EXCEPT ![s] =
                                IF ce.allowed
                                THEN [r EXCEPT !.pc = "streamOpen", !.cls = cls,
                                               !.cands = rr.allCandidates, !.pos = 1,
                                               !.permit = ce.reason]
                                ELSE Responded(r, "unavailable", 503, 0, 0)]
                  /\ UNCHANGED <<cache, tenants, tenantCache>>
          ELSE \E f \in {Fallback(FallbackCandidates(rr), 1, {}, pruned, providers)} :
                  IF f.dispatched
                  THEN /\ breakers' = f.breakers
                       /\ reqs' = [reqs EXCEPT ![s] =
                                     [r EXCEPT !.pc = "call", !.cls = cls,
                                               !.cands = FallbackCandidates(rr), !.pos = f.pos,
                                               !.tried = f.tried, !.permit = f.permit]]
                       /\ UNCHANGED <<cache, tenants, tenantCache>>
                  ELSE \E fin \in {Finish(r, rr.selected, NaN, NaN, "none",
                                          cache, tenants, tenantCache)} :
                          /\ breakers' = f.breakers
                          /\ reqs' = [reqs EXCEPT ![s] = fin.req]
                          /\ cache' = fin.cache
                          /\ tenants' = fin.tenants
                          /\ tenantCache' = fin.tenantCache
    /\ UNCHANGED <<limitVars, providers>>
    /\ UNCHANGED libVars
    /\ HandlerLogs(s)

\* the outcomes of a provider call: the result, or the error thrown
NoStatus == -1          \* an error without a status property

\* (_wrapError: status is that of the HTTP response, 0 when there was none)
CallOutcomes ==
    { [success |-> TRUE, latencyMs |-> 100, timedOut |-> FALSE, status |-> 200,
       inputTokens |-> 1, outputTokens |-> 1],
      [success |-> FALSE, latencyMs |-> 0, timedOut |-> FALSE, status |-> 0,
       inputTokens |-> 0, outputTokens |-> 0],
      [success |-> FALSE, latencyMs |-> 0, timedOut |-> FALSE, status |-> 503,
       inputTokens |-> 0, outputTokens |-> 0],
      [success |-> FALSE, latencyMs |-> 0, timedOut |-> FALSE, status |-> NoStatus,
       inputTokens |-> 0, outputTokens |-> 0],
      [success |-> FALSE, latencyMs |-> 0, timedOut |-> TRUE, status |-> 0,
       inputTokens |-> 0, outputTokens |-> 0] }

\* res.status(lastError.status) without the default
ErrorStatus_raw(err) == err.status

\* res.status(lastError.status || 502): a status that is 0 or undefined is falsy
ErrorStatus(err) == IF err.status \in {NoStatus, 0} THEN 502 ELSE err.status

\* the bounds on what one breaker records
MayRecord(b, success) ==
    /\ Len(PruneOldEvents(b).events) < MaxEvents
    /\ success \/ b.consecutiveFailures < MaxFailures

\* provider.chatCompletion() settles with outcome o: lines 254-349
CallReturns(s, o) ==
    /\ reqs[s].pc = "call"
    /\ LET r == reqs[s]
           i == r.cands[r.pos]
           prov == Catalog[i].provider
           fin == Finish(r, i, o.inputTokens, o.outputTokens, "provider",
                         cache, tenants, tenantCache)
           failed == [breakers EXCEPT ![prov] = RecordResult(@, FALSE, r.age, o.timedOut)]
           f == Fallback(r.cands, r.pos + 1, r.tried, failed, providers)
       IN  /\ MayRecord(breakers[prov], o.success)
           /\ IF o.success
              THEN /\ breakers' = [breakers EXCEPT
                                     ![prov] = RecordResult(@, TRUE, o.latencyMs, FALSE)]
                   /\ reqs' = [reqs EXCEPT ![s] = fin.req]
                   /\ cache' = fin.cache
                   /\ tenants' = fin.tenants
                   /\ tenantCache' = fin.tenantCache
              ELSE /\ breakers' = f.breakers
                   /\ reqs' = [reqs EXCEPT ![s] =
                                 IF f.dispatched
                                 THEN [r EXCEPT !.pos = f.pos, !.tried = f.tried,
                                                !.permit = f.permit]
                                 ELSE [Responded(r, "error", ErrorStatus(o), 0, 0)
                                          EXCEPT !.lastError = [thrown |-> TRUE,
                                                                status |-> o.status]]]
                   /\ UNCHANGED <<cache, tenants, tenantCache>>
    /\ UNCHANGED <<limitVars, providers>>
    /\ UNCHANGED libVars
    /\ HandlerLogs(s)

\* selectedProvider.chatCompletionStream() resolves: lines 397-449
StreamOpened(s, latencyMs) ==
    /\ reqs[s].pc = "streamOpen"
    /\ reqs' = [reqs EXCEPT ![s].pc = "streaming", ![s].latency = latencyMs,
                            ![s].upstream = "open"]
    /\ UNCHANGED <<breakers, limitVars, providers, tenants, tenantCache, cache>>
    /\ UNCHANGED libVars
    /\ NoLog

\* selectedProvider.chatCompletionStream() rejects: lines 451-459
StreamOpenFails(s, timedOut) ==
    /\ reqs[s].pc = "streamOpen"
    /\ LET r == reqs[s]
           prov == Catalog[r.cands[r.pos]].provider
       IN  /\ MayRecord(breakers[prov], FALSE)
           /\ breakers' = [breakers EXCEPT ![prov] = RecordResult(@, FALSE, r.age, timedOut)]
           /\ reqs' = [reqs EXCEPT ![s] =
                         IF r.aborted
                         THEN Gone(r, Responded(r, "streamError", 200, 0, 0), "none")
                         ELSE Responded(r, "streamError", 200, 0, 0)]
    /\ UNCHANGED <<limitVars, providers, tenants, tenantCache, cache>>
    /\ UNCHANGED libVars
    /\ NoLog

\* providerStream emits 'end': lines 412-440
StreamEnd(s, usage) ==
    /\ reqs[s].pc = "streaming"
    /\ LET r == reqs[s]
           i == r.cands[r.pos]
           prov == Catalog[i].provider
           fin == Finish(r, i, usage.inputTokens, usage.outputTokens, "stream",
                         cache, tenants, tenantCache)
       IN  /\ MayRecord(breakers[prov], TRUE)
           /\ breakers' = [breakers EXCEPT ![prov] = RecordResult(@, TRUE, r.latency, FALSE)]
           /\ reqs' = [reqs EXCEPT ![s] =
                         IF r.aborted THEN Gone(r, fin.req, "ended") ELSE fin.req]
           /\ tenants' = fin.tenants
           /\ tenantCache' = fin.tenantCache
    /\ UNCHANGED <<limitVars, providers, cache>>
    /\ UNCHANGED libVars
    /\ HandlerLogs(s)

\* providerStream emits 'error': lines 442-449
StreamError(s) ==
    /\ reqs[s].pc = "streaming"
    /\ LET r == reqs[s]
           prov == Catalog[r.cands[r.pos]].provider
       IN  /\ MayRecord(breakers[prov], FALSE)
           /\ breakers' = [breakers EXCEPT ![prov] = RecordResult(@, FALSE, r.age, FALSE)]
           /\ reqs' = [reqs EXCEPT ![s] =
                         IF r.aborted
                         THEN Gone(r, Responded(r, "streamError", 200, 0, 0), "errored")
                         ELSE Responded(r, "streamError", 200, 0, 0)]
    /\ UNCHANGED <<limitVars, providers, tenants, tenantCache, cache>>
    /\ UNCHANGED libVars
    /\ NoLog

\* providerStream emits 'data': line 406-410, the chunk being written unless
\* the client has gone
StreamData(s) ==
    /\ reqs[s].pc = "streaming"
    /\ reqs[s].upstream = "open"
    /\ reqs[s].sent < MaxChunks
    /\ reqs' = [reqs EXCEPT ![s].sent = IF reqs[s].aborted THEN @ ELSE @ + 1]
    /\ UNCHANGED <<breakers, limitVars, providers, tenants, tenantCache, cache>>
    /\ UNCHANGED libVars
    /\ NoLog

\* the client of the stream on connection s disconnects: the handler of req
\* 'close' (lines 388-394) runs and the response emits 'close' without 'finish'
ClientDisconnects(s) ==
    /\ reqs[s].pc \in {"streamOpen", "streaming"}
    /\ ~reqs[s].aborted
    /\ \E r \in {reqs[s]} :
          reqs' = [reqs EXCEPT ![s] =
                     IF r.upstream = "open"
                     THEN [r EXCEPT !.pc = "gone", !.aborted = TRUE, !.abortedAt = r.age,
                                    !.upstream = "destroyed"]
                     ELSE [r EXCEPT !.aborted = TRUE, !.abortedAt = r.age]]
    /\ activeRequests' = DecActive(activeRequests)
    /\ inFlight' = inFlight - 1
    /\ UNCHANGED <<breakers, buckets, finishing, lastMw, providers, tenants, tenantCache,
                   cache>>
    /\ UNCHANGED libVars
    /\ NoLog

\* connection s is taken by a new client
SlotFree(s) ==
    /\ reqs[s].pc = "gone"
    /\ reqs' = [reqs EXCEPT ![s] = IdleReq]
    /\ UNCHANGED <<breakers, limitVars, providers, tenants, tenantCache, cache>>
    /\ UNCHANGED libVars
    /\ NoLog

\* the response of connection s emits 'finish'
SlotFinish(s) ==
    /\ reqs[s].pc = "responded"
    /\ reqs' = [reqs EXCEPT ![s].pc = "finished"]
    /\ activeRequests' = DecActive(activeRequests)
    /\ inFlight' = inFlight - 1
    /\ finishing' = finishing + 1
    /\ UNCHANGED <<breakers, buckets, lastMw, providers, tenants, tenantCache, cache>>
    /\ UNCHANGED libVars
    /\ NoLog

\* the response of connection s emits 'close'
SlotClose(s) ==
    /\ reqs[s].pc = "finished"
    /\ reqs' = [reqs EXCEPT ![s] = IdleReq]
    /\ activeRequests' = DecActive(activeRequests)
    /\ finishing' = finishing - 1
    /\ UNCHANGED <<breakers, buckets, inFlight, lastMw, providers, tenants, tenantCache, cache>>
    /\ UNCHANGED libVars
    /\ NoLog

\* dt milliseconds pass
Tick(dt) ==
    /\ breakers' = [p \in AllProviders |-> AgeBreaker(breakers[p], dt)]
    /\ buckets' = [t \in TenantIds |-> AgeBucket(buckets[t], dt)]
    /\ cache' = AgeCache(cache, dt)
    /\ reqs' = [s \in Slots |->
                  IF reqs[s].pc \in {"classify", "call", "streamOpen", "streaming"}
                  THEN [reqs[s] EXCEPT !.age = Min(@ + dt, p95LatencyThreshold)]
                  ELSE reqs[s]]
    /\ UNCHANGED <<activeRequests, inFlight, finishing, lastMw, providers, tenants,
                   tenantCache>>
    /\ flushTimer => dt < FlushDelayMs
    /\ UNCHANGED libVars
    /\ NoLog

(***************************************************************************)
(* The server without provider keys: every routed request is answered by   *)
(* the mock response.                                                      *)
(***************************************************************************)
AuthBodies ==
    { [prompt |-> "hi", stream |-> FALSE, strategy |-> ""],
      [prompt |-> "hi", stream |-> TRUE, strategy |-> "balanced"],
      [prompt |-> "", stream |-> FALSE, strategy |-> ""] }

AuthKeys == AllKeys \ {TenantKey("t2")}

NextAuth ==
    \/ Quiet /\ \E k \in AuthKeys, body \in AuthBodies : Receive(1, k, body)
    \/ Quiet /\ \E cls \in ClsInputs, rl \in RlInputs, bm \in BmInputs : Classified(1, cls, rl, bm)
    \/ Quiet /\ SlotFinish(1)
    \/ Quiet /\ SlotClose(1)
    \/ Quiet /\ Tick(ttlMs)
    \/ FlushTimerFires

SpecAuth == Init /\ [][NextAuth]_vars

(***************************************************************************)
(* The server with the key of one provider, openai: anonymous requests on  *)
(* one connection.  A model of another provider is answered by the mock.   *)
(***************************************************************************)
ServerBodies ==
    { [prompt |-> "hi", stream |-> FALSE, strategy |-> ""],
      [prompt |-> "hi", stream |-> TRUE, strategy |-> ""] }

StreamUsages == {[inputTokens |-> 1, outputTokens |-> 1]}

NextServer ==
    \/ Quiet /\ \E body \in ServerBodies : Receive(1, NoKey, body)
    \/ Quiet /\ \E cls \in ClsInputs, rl \in RlInputs, bm \in BmInputs : Classified(1, cls, rl, bm)
    \/ Quiet /\ \E o \in CallOutcomes : CallReturns(1, o)
    \/ Quiet /\ StreamOpened(1, 100)
    \/ Quiet /\ \E timedOut \in BOOLEAN : StreamOpenFails(1, timedOut)
    \/ Quiet /\ \E usage \in StreamUsages : StreamEnd(1, usage)
    \/ Quiet /\ StreamError(1)
    \/ Quiet /\ SlotFinish(1)
    \/ Quiet /\ SlotClose(1)
    \/ Quiet /\ Tick(ttlMs)
    \/ FlushTimerFires

SpecServer == Boot({"openai"}) /\ [][NextServer]_vars

(***************************************************************************)
(* The server without provider keys under load: an anonymous client sends  *)
(* the same prompt on one connection, streaming or not, faster than the    *)
(* flush timer runs; the process may be told to stop at any time.          *)
(***************************************************************************)
LogTickMs == ttlMs \div 2

NextLog ==
    \/ \E body \in ServerBodies : Receive(1, NoKey, body)
    \/ \E cls \in ProbeCls, rl \in RlInputs, bm \in BmInputs : Classified(1, cls, rl, bm)
    \/ SlotFinish(1)
    \/ SlotClose(1)
    \/ Tick(LogTickMs)
    \/ FlushTimerFires
    \/ ShutdownStep

SpecLog == Init /\ [][NextLog]_vars

(***************************************************************************)
(* The server with the keys of openai and groq during an outage of both:   *)
(* every provider call fails.  The client is the tenant whose allowlist is *)
(* gpt-4o, on two connections.                                             *)
(***************************************************************************)
ProbeTickMs == maxCooldownMs

CallBody == [prompt |-> "hi", stream |-> FALSE, strategy |-> ""]

CallFailures == {o \in CallOutcomes : ~o.success /\ ~o.timedOut /\ o.status = 0}

\* the breaker of some configured provider has left CLOSED
Outage == \E p \in providers : breakers[p].state # CLOSED

\* a new connection takes the first idle slot
FirstIdle(s) == \A t \in 1..(s - 1) : reqs[t].pc # "idle"

NextProbe ==
    \/ Quiet /\ \E s \in Slots : FirstIdle(s) /\ Receive(s, TenantKey("t2"), CallBody)
    \/ Quiet /\ \E s \in Slots, cls \in ProbeCls, rl \in RlInputs, bm \in BmInputs :
                Classified(s, cls, rl, bm)
    \/ Quiet /\ \E s \in Slots, o \in CallFailures : CallReturns(s, o)
    \/ Quiet /\ \E s \in Slots : SlotFinish(s)
    \/ Quiet /\ \E s \in Slots : SlotClose(s)
    \/ Quiet /\ Outage /\ Tick(ProbeTickMs)
    \/ FlushTimerFires

SpecProbe == Boot({"openai", "groq"}) /\ [][NextProbe]_vars

(***************************************************************************)
(* The server with the keys of openai and groq, serving the streams of an  *)
(* anonymous client on one connection while openai is down and groq is     *)
(* healthy.  Requests keep arriving, the event loop runs every handler     *)
(* that is ready, every provider call settles and time passes.             *)
(***************************************************************************)
StreamBody == [prompt |-> "hi", stream |-> TRUE, strategy |-> ""]

\* the provider connection s is dispatched to
Serving(s) == Catalog[reqs[s].cands[reqs[s].pos]].provider

Arrives == Quiet /\ Receive(1, NoKey, StreamBody)

Routes ==
    /\ Quiet
    /\ \E cls \in ClsInputs, rl \in RlInputs, bm \in BmInputs : Classified(1, cls, rl, bm)

StreamOpens ==
    /\ Quiet
    /\ reqs[1].pc = "streamOpen"
    /\ IF Serving(1) = "openai"
       THEN \E timedOut \in BOOLEAN : StreamOpenFails(1, timedOut)
       ELSE StreamOpened(1, 100)

StreamSettles == Quiet /\ \E usage \in StreamUsages : StreamEnd(1, usage)

Finishes == Quiet /\ SlotFinish(1)

Closes == Quiet /\ SlotClose(1)

TimePasses == Quiet /\ Tick(windowMs)

NextRecover ==
    \/ Arrives
    \/ Routes
    \/ StreamOpens
    \/ StreamSettles
    \/ Finishes
    \/ Closes
    \/ TimePasses
    \/ FlushTimerFires

SpecRecover ==
    /\ Boot({"openai", "groq"})
    /\ [][NextRecover]_vars
    /\ WF_vars(Arrives)
    /\ WF_vars(Routes)
    /\ WF_vars(StreamOpens)
    /\ WF_vars(StreamSettles)
    /\ WF_vars(Finishes)
    /\ WF_vars(Closes)
    /\ WF_vars(TimePasses)
    /\ WF_vars(FlushTimerFires)

(***************************************************************************)
(* The server with the keys of openai and groq, serving the non-streaming  *)
(* requests of the tenant whose allowlist is gpt-4o on one connection      *)
(* while groq is down: a call to openai may succeed, or fail with or       *)
(* without an HTTP status.                                                 *)
(***************************************************************************)
FallbackOutcomes == {o \in CallOutcomes : ~o.timedOut}

NextFallback ==
    \/ Quiet /\ Receive(1, TenantKey("t2"), CallBody)
    \/ Quiet /\ \E cls \in ClsInputs, rl \in RlInputs, bm \in BmInputs : Classified(1, cls, rl, bm)
    \/ Quiet /\ \E o \in FallbackOutcomes :
                   /\ reqs[1].pc = "call"
                   /\ Serving(1) = "groq" => ~o.success
                   /\ CallReturns(1, o)
    \/ Quiet /\ SlotFinish(1)
    \/ Quiet /\ SlotClose(1)
    \/ Quiet /\ Outage /\ Tick(ProbeTickMs)
    \/ FlushTimerFires

SpecFallback == Boot({"openai", "groq"}) /\ [][NextFallback]_vars

(***************************************************************************)
(* A cache instance by itself: stores and lookups, with and without an     *)
(* embedding, and the passage of time one millisecond at a time.           *)
(***************************************************************************)
CacheTickMs == 1

\* the instance has answered fewer than MaxLookups lookups since it was examined
LookupsLeft(c) ==
    \E st \in CacheStats :
       c.stats.totalLookups \in st.totalLookups..(st.totalLookups + MaxLookups - 1)

LastCall(c) ==
    [ op |-> c.returned.op, hash |-> c.returned.hash, evicted |-> c.returned.evicted,
      replaced |-> c.returned.replaced ]

CacheLookupCall(h, e) ==
    /\ LookupsLeft(semanticCache)
    /\ \E l \in {CacheLookup(semanticCache, h, e)} :
          semanticCache' =
             [l.cache EXCEPT !.returned = [l.result EXCEPT !.prev = LastCall(semanticCache)]]
    /\ UNCHANGED <<breakerVars, limitVars, serverVars, queueVars, routing, rlVars,
                   transformer, adapterVars>>

CacheStoreCall(h, p) ==
    /\ p.embedding # NoEmbedding => semanticCache.stats.embeddingsComputed < MaxEmbeddings
    /\ semanticCache' =
          [CacheStore(semanticCache, h, p.response, p.model, p.embedding) EXCEPT
              !.returned = [NoResult EXCEPT
                               !.op = "store", !.hash = h,
                               !.response = p.response, !.model = p.model,
                               !.evicted = MapSize(semanticCache) - MapSize(EvictLRU(semanticCache)),
                               !.dropped = Len(semanticCache.embeddingEntries)
                                           - Len(EvictLRU(semanticCache).embeddingEntries),
                               !.replaced = semanticCache.exactMatchMap[h] # NoEntry]]
    /\ UNCHANGED <<breakerVars, limitVars, serverVars, queueVars, routing, rlVars,
                   transformer, adapterVars>>

CacheTick ==
    /\ semanticCache' = [AgeSemanticCache(semanticCache, CacheTickMs) EXCEPT
                            !.returned = [NoResult EXCEPT !.op = "tick"]]
    /\ UNCHANGED <<breakerVars, limitVars, serverVars, queueVars, routing, rlVars,
                   transformer, adapterVars>>

InitCache ==
    \E o \in CacheOptions, st \in CacheStats : BootWith({}, SemanticCache(o, st))

NextCache ==
    \/ \E h \in CacheHashes, e \in Probes : CacheLookupCall(h, e)
    \/ \E h \in CacheHashes, p \in Payloads : CacheStoreCall(h, p)
    \/ CacheTick

SpecCache == InitCache /\ [][NextCache]_vars

(***************************************************************************)
(* routeRequest called on its own: every classification tier at a          *)
(* confidence below, at and above the threshold, known and unknown         *)
(* strategies, bandit scores and benchmarks that favour one model or       *)
(* none, every combination of breaker states and four allowlists.          *)
(***************************************************************************)
RouteClassifications ==
    [tier : Tiers, confidencePct : {30, 50, 90}, intent : {"code", "qa"}]

RouteStrategyInputs == {"cost-first", "performance-first", "unknown"}

\* rlEngine.getScores(): none known, and one favouring gpt-4o
RouteRlInputs ==
    { [id \in ModelIds |-> 500],
      [id \in ModelIds |-> IF id = "gpt-4o" THEN 999 ELSE 1] }

\* benchmarker.getAllMetrics(): none, and measurements that make command-r and
\* mixtral-8x7b alike
RouteBmInputs ==
    { [id \in ModelIds |-> NoBenchmark],
      [id \in ModelIds |->
          IF id \in {"command-r", "mixtral-8x7b"}
          THEN [avgLatencyMs |-> 700, errorRate |-> 10, sampleCount |-> 20]
          ELSE NoBenchmark] }

RouteBreakerInputs ==
    [AllProviders -> {CLOSED, OPEN}] \cup {[p \in AllProviders |-> HALF_OPEN]}

\* tenantAllowedModels: null, one model, two models, an empty array
RouteAllowInputs ==
    { NoAllowlist,
      [restricted |-> TRUE, ids |-> {"gpt-4o"}],
      [restricted |-> TRUE, ids |-> {"llama-3.1-8b", "command-r"}],
      [restricted |-> TRUE, ids |-> {}] }

\* routeRequest(cls, strategy, { rlScores, benchmarkMetrics, breakerStates,
\* tenantAllowedModels })
RouteCall(cls, strategy, rl, bm, states, allow) ==
    /\ ~routing.called
    /\ \E rr \in {RouteRequest(cls, strategy, rl, bm, states, allow)} :
          routing' = [ called |-> TRUE, classification |-> cls, strategy |-> strategy,
                       rlScores |-> rl, benchmarkMetrics |-> bm, breakerStates |-> states,
                       tenantAllowedModels |-> allow, result |-> rr, again |-> NoRoute ]
    /\ UNCHANGED <<breakerVars, limitVars, serverVars, queueVars, semanticCache, rlVars,
                   transformer, adapterVars>>

\* the same call once more
RouteAgain ==
    /\ routing.called
    /\ routing.again = NoRoute
    /\ \E rr \in {RouteRequest(routing.classification, routing.strategy, routing.rlScores,
                                routing.benchmarkMetrics, routing.breakerStates,
                                routing.tenantAllowedModels)} :
          routing' = [routing EXCEPT !.again = rr]
    /\ UNCHANGED <<breakerVars, limitVars, serverVars, queueVars, semanticCache, rlVars,
                   transformer, adapterVars>>

NextRoute ==
    \/ \E cls \in RouteClassifications, strategy \in RouteStrategyInputs,
          rl \in RouteRlInputs, bm \in RouteBmInputs,
          states \in RouteBreakerInputs, allow \in RouteAllowInputs :
          RouteCall(cls, strategy, rl, bm, states, allow)
    \/ RouteAgain

SpecRoute == Boot({}) /\ [][NextRoute]_vars

(***************************************************************************)
(* The bandit under the three kinds of update: the automatic feedback of   *)
(* a completion (server.js:323, 439), POST /api/feedback, and the          *)
(* five-minute recompute.  One global posterior may start just below the   *)
(* window, as after 1979 updates.                                          *)
(***************************************************************************)

\* globalWeights at the start: the priors, or gpt-4o at alpha 100, beta 99.95
RlGlobals ==
    { InitWeights,
      [InitWeights EXCEPT !["gpt-4o"] = [alpha |-> 100 * AlphaUnit, beta |-> 99950]] }

\* computeAutoReward(latencyMs, cost, true) lies between 0.4 and 1
AutoRewards == {40, 100}

RlModels == {"gpt-4o", "llama-3.1-8b"}
RlTenants == {NoTenant.id, "t1"}

NoValue == -1            \* a property the body does not have

\* the bodies of POST /api/feedback
FeedbackBodies ==
    [ requestId : {"r1"}, modelId : {"gpt-4o", "unknown"},
      qualityScore : {NoValue, 3, 200}, success : {"true", "false"} ]
    \cup { [requestId |-> "r1", modelId |-> "", qualityScore |-> NoValue, success |-> "true"] }

\* the reward POST /api/feedback computes from the body (line 680)
BodyReward(body) ==
    IF body.success = "false" THEN 0
    ELSE IF body.qualityScore \in {NoValue, 0} THEN 70
    ELSE body.qualityScore * 10

\* the row POST /api/feedback inserts
BodyRow(body) ==
    [ model_id |-> body.modelId,
      quality_score |-> IF body.qualityScore \in {NoValue, 0} THEN Null ELSE body.qualityScore,
      latency_ms |-> Null, cost |-> Null,
      success |-> IF body.success = "false" THEN 0 ELSE 1 ]

\* rlEngine.recordFeedback(selectedModel.id, computeAutoReward(...), req.tenantId)
RlAutoFeedback(modelId, reward, tenantId) ==
    /\ rlEngine.calls < MaxFeedback
    /\ rlEngine' = [RecordFeedback(rlEngine, modelId, reward, tenantId) EXCEPT
                       !.calls = @ + 1,
                       !.last = [op |-> "auto", modelId |-> modelId, tenantId |-> tenantId,
                                 status |-> 0]]
    /\ UNCHANGED <<breakerVars, limitVars, serverVars, queueVars, semanticCache, routing,
                   routingFeedback, transformer, adapterVars>>

\* POST /api/feedback
RlPostFeedback(body, tenantId) ==
    /\ rlEngine.calls < MaxFeedback
    /\ IF body.requestId = "" \/ body.modelId = ""
       THEN /\ rlEngine' = [rlEngine EXCEPT
                               !.calls = @ + 1,
                               !.last = [op |-> "post", modelId |-> body.modelId,
                                         tenantId |-> tenantId, status |-> 400]]
            /\ UNCHANGED routingFeedback
       ELSE /\ Len(routingFeedback) < MaxFeedbackRows
            /\ routingFeedback' = Append(routingFeedback, BodyRow(body))
            /\ rlEngine' = [RecordFeedback(rlEngine, body.modelId, BodyReward(body), tenantId)
                               EXCEPT !.calls = @ + 1,
                                      !.last = [op |-> "post", modelId |-> body.modelId,
                                                tenantId |-> tenantId, status |-> 200]]
    /\ UNCHANGED <<breakerVars, limitVars, serverVars, queueVars, semanticCache, routing,
                   transformer, adapterVars>>

\* the interval of startPeriodicRecompute fires
RlRecomputeFires ==
    /\ rlEngine' = [RecomputeFromDB(rlEngine, routingFeedback) EXCEPT
                       !.last = [NoRlCall EXCEPT !.op = "recompute"]]
    /\ UNCHANGED <<breakerVars, limitVars, serverVars, queueVars, semanticCache, routing,
                   routingFeedback, transformer, adapterVars>>

\* ten minutes pass: the rows are no longer selected by getRecentFeedback
RlFeedbackAges ==
    /\ routingFeedback # << >>
    /\ routingFeedback' = << >>
    /\ rlEngine' = [rlEngine EXCEPT !.last = [NoRlCall EXCEPT !.op = "age"]]
    /\ UNCHANGED <<breakerVars, limitVars, serverVars, queueVars, semanticCache, routing,
                   transformer, adapterVars>>

InitRl ==
    \E g \in RlGlobals :
        BootAll({}, SemanticCache(CHOOSE o \in CacheOptions : TRUE, NewStats), RLEngine(g))

NextRl ==
    \/ \E modelId \in RlModels, reward \in AutoRewards, tenantId \in RlTenants :
          RlAutoFeedback(modelId, reward, tenantId)
    \/ \E body \in FeedbackBodies, tenantId \in RlTenants : RlPostFeedback(body, tenantId)
    \/ RlRecomputeFires
    \/ RlFeedbackAges

SpecRl == InitRl /\ [][NextRl]_vars

(***************************************************************************)
(* The server with the key of groq, serving the streams of an anonymous   *)
(* client on one connection: the client may disconnect while the upstream  *)
(* stream is being opened or while it is streaming.                        *)
(***************************************************************************)
NextStream ==
    \/ Quiet /\ Receive(1, NoKey, StreamBody)
    \/ Quiet /\ \E cls \in ClsInputs, rl \in RlInputs, bm \in BmInputs : Classified(1, cls, rl, bm)
    \/ Quiet /\ StreamOpened(1, 100)
    \/ Quiet /\ StreamOpenFails(1, FALSE)
    \/ Quiet /\ StreamData(1)
    \/ Quiet /\ \E usage \in StreamUsages : StreamEnd(1, usage)
    \/ Quiet /\ StreamError(1)
    \/ Quiet /\ ClientDisconnects(1)
    \/ Quiet /\ SlotFree(1)
    \/ Quiet /\ SlotFinish(1)
    \/ Quiet /\ SlotClose(1)
    \/ Quiet /\ reqs[1].pc \in {"streamOpen", "streaming"} /\ Tick(windowMs)
    \/ FlushTimerFires

SpecStream == Boot({"groq"}) /\ [][NextStream]_vars

(***************************************************************************)
(* The server with the key of openai, serving the streams of the tenant    *)
(* whose allowlist is gpt-4o on one connection, under fairness: a request  *)
(* that arrived is routed, an upstream call that was sent settles, an open *)
(* upstream stream ends or fails, and a response that was ended is         *)
(* finished and closed.  Whether a client comes, and whether it            *)
(* disconnects, is left open.                                              *)
(***************************************************************************)
\* the usage of a stream that reported none: getUsage() of the provider gave zeros
NoUsage == [inputTokens |-> 0, outputTokens |-> 0]

ProbeRoutes ==
    /\ Quiet
    /\ \E cls \in ProbeCls, rl \in RlInputs, bm \in BmInputs : Classified(1, cls, rl, bm)

StreamOpenSettles == Quiet /\ (StreamOpened(1, 100) \/ StreamOpenFails(1, FALSE))

UpstreamSettles == Quiet /\ (StreamEnd(1, NoUsage) \/ StreamError(1))

SlotFreed == Quiet /\ SlotFree(1)

\* time passes while a circuit is open and no request is in flight
CooldownPasses ==
    /\ Quiet
    /\ Outage
    /\ reqs[1].pc = "idle"
    /\ Tick(ProbeTickMs)

NextProbeStream ==
    \/ Quiet /\ Receive(1, TenantKey("t2"), StreamBody)
    \/ ProbeRoutes
    \/ Quiet /\ StreamOpened(1, 100)
    \/ Quiet /\ StreamOpenFails(1, FALSE)
    \/ Quiet /\ StreamData(1)
    \/ Quiet /\ StreamEnd(1, NoUsage)
    \/ Quiet /\ StreamError(1)
    \/ Quiet /\ ClientDisconnects(1)
    \/ SlotFreed
    \/ Finishes
    \/ Closes
    \/ CooldownPasses
    \/ FlushTimerFires

SpecProbeStream ==
    /\ Boot({"openai", "groq"})
    /\ [][NextProbeStream]_vars
    /\ WF_vars(ProbeRoutes)
    /\ WF_vars(StreamOpenSettles)
    /\ WF_vars(UpstreamSettles)
    /\ WF_vars(Finishes)
    /\ WF_vars(Closes)
    /\ WF_vars(SlotFreed)
    /\ WF_vars(FlushTimerFires)

(***************************************************************************)
(* The translator of one Anthropic stream, fed with the upstream bytes in  *)
(* network chunks of any size.                                             *)
(***************************************************************************)
\* the texts of the deltas: text_delta events, whose text may be empty
DeltaTexts == {"", "a", TwoByteText}

\* message_start, N content_block_delta, message_delta, message_stop
UpstreamInputs ==
    { <<MessageStart>> \o [i \in 1..n |-> ContentBlockDelta(texts[i])]
                       \o <<MessageDelta, MessageStop>> :
        n \in 0..MaxDeltas, texts \in [1..MaxDeltas -> DeltaTexts] }

SubSeqFrom(s, i) == SubSeq(s, i, Len(s))

\* chatCompletionStream(body) resolves: the transformer is made and response.data
\* is piped into it
ChatCompletionStream(events) ==
    /\ ~transformer.open
    /\ transformer' = [NoTransformer EXCEPT !.open = TRUE, !.events = events,
                                            !.upstream = Wire(events, 1)]
    /\ UNCHANGED <<breakerVars, limitVars, serverVars, queueVars, semanticCache, routing,
                   rlVars, adapterVars>>

\* response.data emits the next n pieces as one chunk
UpstreamData(n) ==
    /\ transformer.open
    /\ n <= Len(transformer.upstream)
    /\ \E t \in {Transform(transformer, SubSeq(transformer.upstream, 1, n))} :
          transformer' = [t EXCEPT !.upstream = SubSeqFrom(transformer.upstream, n + 1),
                                   !.held = @ \/ (t.buffer # << >>)]
    /\ UNCHANGED <<breakerVars, limitVars, serverVars, queueVars, semanticCache, routing,
                   rlVars, adapterVars>>

\* response.data ends
UpstreamEnd ==
    /\ transformer.open
    /\ transformer.upstream = << >>
    /\ ~transformer.ended
    /\ transformer' = Flush(transformer)
    /\ UNCHANGED <<breakerVars, limitVars, serverVars, queueVars, semanticCache, routing,
                   rlVars, adapterVars>>

NextTranslate ==
    \/ \E events \in UpstreamInputs : ChatCompletionStream(events)
    \/ \E n \in 1..MaxChunkPieces : UpstreamData(n)
    \/ UpstreamEnd

SpecTranslate == Boot({}) /\ [][NextTranslate]_vars

(***************************************************************************)
(* The classifier alone: loadOnnxModel at startup, then one call of        *)
(* classify, which awaits the inference when a session is loaded.          *)
(***************************************************************************)
\* loadOnnxModel(): found says that the model file exists and a session was made
LoadOnnxModel(found) ==
    /\ ~classifier.loaded
    /\ classifier.pc = "idle"
    /\ classifier' = [classifier EXCEPT !.loaded = TRUE, !.onnxReady = found]
    /\ UNCHANGED <<breakerVars, limitVars, serverVars, queueVars, semanticCache, routing,
                   rlVars, transformer, baseProvider>>

\* classify(prompt) up to its await: extractFeatures gave features; without a
\* session onnxClassify returns null and heuristicClassify answers
Classify(features) ==
    /\ classifier.pc = "idle"
    /\ IF classifier.onnxReady
       THEN classifier' = [classifier EXCEPT !.pc = "inference", !.features = features]
       ELSE \E rounded \in Rounded(RawScore(features)) :
               classifier' = [classifier EXCEPT !.pc = "done", !.features = features,
                                 !.result = HeuristicClassify(features, rounded)]
    /\ UNCHANGED <<breakerVars, limitVars, serverVars, queueVars, semanticCache, routing,
                   rlVars, transformer, baseProvider>>

\* onnxSession.run settles with the probabilities, and classify returns
OnnxRun(probabilities) ==
    /\ classifier.pc = "inference"
    /\ classifier' = [classifier EXCEPT !.pc = "done", !.result = OnnxClassify(probabilities)]
    /\ UNCHANGED <<breakerVars, limitVars, serverVars, queueVars, semanticCache, routing,
                   rlVars, transformer, baseProvider>>

\* onnxSession.run throws: onnxClassify returns null and heuristicClassify answers
OnnxRunFails ==
    /\ classifier.pc = "inference"
    /\ \E rounded \in Rounded(RawScore(classifier.features)) :
          classifier' = [classifier EXCEPT !.pc = "done", !.failed = TRUE,
                            !.result = HeuristicClassify(classifier.features, rounded)]
    /\ UNCHANGED <<breakerVars, limitVars, serverVars, queueVars, semanticCache, routing,
                   rlVars, transformer, baseProvider>>

NextClassify ==
    \/ \E found \in BOOLEAN : LoadOnnxModel(found)
    \/ classifier.pc = "idle" /\ \E features \in FeatureVectors : Classify(features)
    \/ \E probabilities \in Probabilities : OnnxRun(probabilities)
    \/ OnnxRunFails

SpecClassify == Boot({}) /\ [][NextClassify]_vars

(***************************************************************************)
(* One BaseProvider and the calls of request on it, one after the other.   *)
(* Every attempt settles (the client has a timeout) and every backoff      *)
(* timer fires, hence the fairness of the two.                             *)
(***************************************************************************)
\* new BaseProvider(name, {maxRetries})
NewBaseProvider(configMaxRetries) ==
    /\ baseProvider.pc = "idle"
    /\ baseProvider' = BaseProvider(configMaxRetries)
    /\ UNCHANGED <<breakerVars, limitVars, serverVars, queueVars, semanticCache, routing,
                   rlVars, transformer, classifier>>

\* request(...) is called and sends its first attempt
ProviderRequest(option) ==
    /\ baseProvider.pc \in {"idle", "returned", "thrown"}
    /\ baseProvider' = [BaseProvider(baseProvider.maxRetries) EXCEPT
                           !.pc = "sending", !.option = option,
                           !.maxRetriesOfCall = IF option = NoOption
                                                THEN baseProvider.maxRetries ELSE option]
    /\ UNCHANGED <<breakerVars, limitVars, serverVars, queueVars, semanticCache, routing,
                   rlVars, transformer, classifier>>

\* this.client.request settles
ClientRequestSettles(outcome) ==
    /\ baseProvider.pc = "sending"
    /\ \E b \in {[baseProvider EXCEPT !.sent = @ + 1]} :
          baseProvider' = IF outcome.ok
                          THEN [b EXCEPT !.pc = "returned", !.returned = b.attempt]
                          ELSE RequestCatch(b, outcome)
    /\ UNCHANGED <<breakerVars, limitVars, serverVars, queueVars, semanticCache, routing,
                   rlVars, transformer, classifier>>

\* the timer of the backoff fires and the loop sends the next attempt
BackoffElapsed ==
    /\ baseProvider.pc = "backoff"
    /\ baseProvider' = [baseProvider EXCEPT !.pc = "sending", !.attempt = @ + 1]
    /\ UNCHANGED <<breakerVars, limitVars, serverVars, queueVars, semanticCache, routing,
                   rlVars, transformer, classifier>>

AttemptSettles == \E outcome \in HttpOutcomes : ClientRequestSettles(outcome)

NextRequest ==
    \/ \E configMaxRetries \in RetryOptions : NewBaseProvider(configMaxRetries)
    \/ \E option \in RetryOptions : ProviderRequest(option)
    \/ AttemptSettles
    \/ BackoffElapsed

SpecRequest ==
    /\ Boot({})
    /\ [][NextRequest]_vars
    /\ WF_vars(AttemptSettles)
    /\ WF_vars(BackoffElapsed)

(***************************************************************************)
(* Properties of the breaker                                               *)
(***************************************************************************)
\* a step that records a result on breaker p: the list ends with a new event of age 0
\* behind what is left of the old list
RecordedOn(p) ==
    LET old == breakers[p].events
        new == breakers'[p].events
    IN  /\ new # << >>
        /\ new[Len(new)].age = 0
        /\ \/ breakers[p].state = HALF_OPEN /\ new = Append(old, new[Len(new)])
           \/ breakers[p].state # HALF_OPEN
              /\ SubSeq(new, 1, Len(new) - 1) = SelectSeq(old, LAMBDA e : e.age < windowMs)

\* the thresholds of the claim, over a window w of at least one event
WindowFailures(w) == Cardinality({i \in 1..Len(w) : ~w[i].success})
WindowTimeouts(w) == Cardinality({i \in 1..Len(w) : w[i].timedOut})
\* nearest-rank 95th percentile: the least latency that 95% of the events do not exceed
WindowP95(w) ==
    CHOOSE v \in {w[i].latencyMs : i \in 1..Len(w)} :
        /\ 20 * Cardinality({i \in 1..Len(w) : w[i].latencyMs <= v}) >= 19 * Len(w)
        /\ \A u \in {w[i].latencyMs : i \in 1..Len(w)} :
              20 * Cardinality({i \in 1..Len(w) : w[i].latencyMs <= u}) >= 19 * Len(w)
                 => v <= u
WindowBreach(w) ==
    \/ 2 * WindowFailures(w) >= Len(w)
    \/ 10 * WindowTimeouts(w) >= 3 * Len(w)
    \/ WindowP95(w) >= 30000

\* C2: a result recorded on a CLOSED breaker whose window then holds at least 5 events
\* opens it (opened_at and last_open_reason recorded) exactly when error_rate >= 0.5 or
\* timeout_rate >= 0.3 or p95 >= 30000 ms; with fewer than 5 events it stays CLOSED; an
\* error-rate breach, as after five non-timeout failures, gives a reason naming the
\* error rate.
C2_OpensIffBreach ==
    [][\A p \in AllProviders :
         (breakers[p].state = CLOSED /\ RecordedOn(p)) =>
            LET w == breakers'[p].events
            IN  IF Len(w) >= 5
                THEN /\ breakers'[p].state = OPEN <=> WindowBreach(w)
                     /\ breakers'[p].state # OPEN => breakers'[p].state = CLOSED
                     /\ WindowBreach(w) =>
                           /\ breakers'[p].openedAgo = 0
                           /\ breakers'[p].lastOpenReason # NoReason
                     /\ 2 * WindowFailures(w) >= Len(w) =>
                           breakers'[p].lastOpenReason = "error rate"
                ELSE breakers'[p].state = CLOSED]_vars

\* five consecutive non-timeout failures and nothing else: OPEN, reason "error rate"
C2_Witness ==
    LET b == breakers["openai"]
    IN  /\ b.state = OPEN
        /\ Len(b.events) = 5
        /\ \A i \in 1..5 : ~b.events[i].success /\ ~b.events[i].timedOut /\ b.events[i].age = 0
        /\ b.consecutiveFailures = 5
        /\ b.openedAgo = 0
        /\ b.lastOpenReason = "error rate"

\* C3: the cooldown starts at 10 s, a failed HALF_OPEN probe doubles it up to 120 s at
\* most, a successful probe resets it to 10 s, nothing else changes it, and it stays
\* within [baseCooldownMs, maxCooldownMs].
C3_CooldownBackoff ==
    /\ \A p \in AllProviders : breakers[p].cooldownMs = 10000
    /\ [][\A p \in AllProviders :
            /\ 10000 <= breakers'[p].cooldownMs /\ breakers'[p].cooldownMs <= 120000
            /\ IF breakers[p].state = HALF_OPEN /\ breakers'[p].state = OPEN
               THEN breakers'[p].cooldownMs =
                       IF 2 * breakers[p].cooldownMs > 120000 THEN 120000
                       ELSE 2 * breakers[p].cooldownMs
               ELSE IF breakers[p].state = HALF_OPEN /\ breakers'[p].state = CLOSED
               THEN breakers'[p].cooldownMs = 10000
               ELSE breakers'[p].cooldownMs = breakers[p].cooldownMs]_vars

\* the fourth failed probe in a row: 80 s doubled is capped at 120 s
C3_Witness ==
    /\ breakers["openai"].state = OPEN
    /\ breakers["openai"].cooldownMs = 120000
    /\ breakers["openai"].openedAgo = 0

(***************************************************************************)
(* Properties of the rate-limit middleware                                 *)
(***************************************************************************)

\* C5: the active-request counter is decremented exactly once per admitted
\* request whichever of 'finish' and 'close' occur: in every reachable state it
\* counts the admitted requests that have not completed (those that emitted
\* neither event, with or without those between 'finish' and 'close') and is
\* never negative.
C5_ActiveCountExact ==
    /\ activeRequests >= 0
    /\ activeRequests >= inFlight
    /\ activeRequests <= inFlight + finishing

\* a step in which the middleware answered a request
MwAnswered ==
    \/ lastMw' # lastMw
    \/ inFlight' > inFlight

\* C6: never more than MAX_CONCURRENT admitted requests are in flight, and a
\* request arriving while MAX_CONCURRENT are in flight is answered 429
\* concurrency_limit, with no token consumed and the active count unchanged.
C6_ConcurrencyCap ==
    [][ /\ inFlight' <= MAX_CONCURRENT
        /\ (inFlight >= MAX_CONCURRENT /\ MwAnswered) =>
              /\ lastMw'.status = 429
              /\ lastMw'.code = "concurrency_limit"
              /\ buckets' = buckets
              /\ activeRequests' = activeRequests ]_vars

\* a step in which the middleware called consume() on the bucket of tenant t
BucketRequest(t) ==
    /\ lastMw'.tenant = t
    /\ lastMw'.code \in {"next", "rpm_exceeded"}
    /\ buckets'[t] # NoBucket
    /\ buckets'[t].sinceRefill = 0
    /\ activeRequests' >= activeRequests
    /\ inFlight' >= inFlight
    /\ finishing' = finishing

\* the tokens of tenant ten's bucket once refilled, in 1/60000 token
Available(ten) ==
    LET old == buckets[ten.id]
        cap == ten.rate_limit_rpm * TokenUnit
    IN  IF old = NoBucket THEN cap
        ELSE Min(cap, old.tokens + old.sinceRefill * ten.rate_limit_rpm)

\* C7: a tenant's bucket has capacity rate_limit_rpm and refills at capacity/60
\* tokens per second; consume() refuses exactly when fewer than 1 token is
\* available after the refill, removes exactly one token when it accepts, and
\* the tokens stay between 0 and the capacity.
C7_TokenBucket ==
    [][ \A ten \in LimitTenants \ {NoTenant} :
          LET t == ten.id
              now == buckets'[t]
          IN  /\ now # NoBucket =>
                    /\ now.capacity = ten.rate_limit_rpm * TokenUnit
                    /\ now.ratePerMin = ten.rate_limit_rpm
                    /\ 0 <= now.tokens
                    /\ now.tokens <= now.capacity
              /\ BucketRequest(t) =>
                    /\ (lastMw'.code = "rpm_exceeded") <=> (Available(ten) < TokenUnit)
                    /\ lastMw'.code = "rpm_exceeded" =>
                          /\ lastMw'.status = 429
                          /\ now.tokens = Available(ten)
                          /\ inFlight' = inFlight
                    /\ lastMw'.code = "next" =>
                          /\ now.tokens = Available(ten) - TokenUnit
                          /\ inFlight' = inFlight + 1 ]_vars

\* a request of tenant t1 was refused with part of a token in the bucket
C7_Witness ==
    /\ lastMw.tenant = "t1"
    /\ lastMw.code = "rpm_exceeded"
    /\ buckets["t1"].tokens > 0
    /\ buckets["t1"].tokens < TokenUnit

(***************************************************************************)
(* Properties of the authentication stage                                  *)
(***************************************************************************)

\* a step in which a request arrived: the middleware chain answered it
Arrived ==
    \/ lastMw' # lastMw
    \/ \E s \in Slots : reqs[s].pc = "idle" /\ reqs'[s].pc # "idle"

\* a step that ran nothing behind the authentication stage
NothingRan ==
    /\ reqs' = reqs
    /\ buckets' = buckets
    /\ activeRequests' = activeRequests
    /\ cache' = cache
    /\ breakers' = breakers
    /\ tenants' = tenants

\* the tenants whose key is k
OwnersOf(k) == {t \in DOMAIN tenants : tenants[t].api_key_hash = HashKey(k)}

OverBudget(t) ==
    /\ tenants[t].budget_limit_monthly # 0
    /\ tenants[t].usage_this_month # Null
    /\ tenants[t].usage_this_month >= tenants[t].budget_limit_monthly

\* C8: a request with the key of a tenant whose budget is set and whose usage has
\* reached it is answered 429 budget_exceeded by the authentication stage: no
\* token is consumed and no cache lookup, classification, routing or dispatch runs.
C8_BudgetRejected ==
    [][ \A t \in DOMAIN tenants :
          (Arrived /\ t \in OwnersOf(lastMw'.key) /\ OverBudget(t)) =>
              /\ lastMw'.status = 429
              /\ lastMw'.code = "budget_exceeded"
              /\ NothingRan ]_vars

\* a request of tenant t1 was refused for its budget, which the usage has reached
C8_Witness ==
    /\ lastMw.key = TenantKey("t1")
    /\ lastMw.code = "budget_exceeded"
    /\ OverBudget("t1")

\* the request that arrived went on without a tenant
PassedAnonymous ==
    /\ lastMw'.tenant = NoTenant.id
    /\ lastMw'.code \in {"next", "concurrency_limit"}
    /\ \A s \in Slots : (reqs[s].pc = "idle" /\ reqs'[s].pc # "idle") =>
                            reqs'[s].tenant = NoTenant

\* the request that arrived went on with the tenant that owns its key
PassedAsTenant ==
    /\ lastMw'.tenant \in OwnersOf(lastMw'.key)
    /\ lastMw'.code \in {"next", "rpm_exceeded", "concurrency_limit"}
    /\ \A s \in Slots : (reqs[s].pc = "idle" /\ reqs'[s].pc # "idle") =>
                            reqs'[s].tenant.id = lastMw'.tenant

Rejected401 ==
    /\ lastMw'.status = 401
    /\ lastMw'.code = "invalid_api_key"
    /\ OwnersOf(lastMw'.key) = {}
    /\ NothingRan

Rejected429 ==
    /\ lastMw'.status = 429
    /\ lastMw'.code = "budget_exceeded"
    /\ NothingRan

\* C9 as stated: a key in sk- or ant-, in any other prefix than fra_, or no key,
\* passes as anonymous; a key in fra_ either authenticates to a tenant that is
\* attached to the request, or is answered 401 invalid_api_key with no later stage run.
C9_Original ==
    [][ Arrived =>
          IF lastMw'.key.prefix = "fra_"
          THEN PassedAsTenant \/ Rejected401
          ELSE PassedAnonymous ]_vars

\* C9, amended: a key in fra_ has a third outcome, the tenant it authenticates to
\* being over budget: 429 budget_exceeded, no tenant attached, no later stage run.
C9_PrefixOutcome ==
    [][ Arrived =>
          IF lastMw'.key.prefix = "fra_"
          THEN PassedAsTenant \/ Rejected401 \/ Rejected429
          ELSE PassedAnonymous ]_vars

\* a key in fra_ that no tenant owns was answered 401
C9_Witness ==
    /\ lastMw.key.prefix = "fra_"
    /\ lastMw.status = 401
    /\ activeRequests # 0

(***************************************************************************)
(* Properties of the completions                                           *)
(***************************************************************************)
\* the completions the handler counts as successful: the answer of a provider,
\* a stream that reached its end, the mock answer
Completions == {"provider", "stream", "mock"}

\* C10: a request answered by a provider, by a completed stream or by the mock has
\* queued one log entry and made one bandit update, and no request has done more
\* than one of either.
C10_OneLogOneFeedback ==
    \A s \in Slots :
        /\ reqs[s].logs <= 1
        /\ reqs[s].fbs <= 1
        /\ (reqs[s].pc = "responded" /\ reqs[s].kind \in Completions)
              => (reqs[s].logs = 1 /\ reqs[s].fbs = 1)

\* a completed stream, after a non-streaming completion left its answer in the cache
C10_Witness ==
    /\ cache[HashPrompt("hi")] # NoEntry
    /\ reqs[1].pc = "responded"
    /\ reqs[1].kind = "stream"
    /\ reqs[1].logs = 1
    /\ reqs[1].fbs = 1

(***************************************************************************)
(* Properties of the dispatch                                              *)
(***************************************************************************)
\* the provider the request of a connection is being served by, if any
DispatchedTo(r) ==
    IF r.pc \in {"call", "streamOpen", "streaming"}
    THEN Catalog[r.cands[r.pos]].provider ELSE "none"

\* connection s holds the request canExecute() admitted as the probe of p, and no
\* result of it has been recorded
ProbeInFlight(rs, s, p) ==
    /\ DispatchedTo(rs[s]) = p
    /\ rs[s].permit = "half-open probe"

\* in this step canExecute() of p returns allowed = true to the request of
\* connection t, which is dispatched to p
Admits(t, p) ==
    /\ DispatchedTo(reqs'[t]) = p
    /\ \/ DispatchedTo(reqs[t]) = "none"
       \/ reqs'[t].pos # reqs[t].pos

\* C1: no request is dispatched to a provider whose breaker is OPEN, and while
\* the request admitted as the HALF_OPEN probe of a provider is in flight, its
\* result not yet recorded, canExecute() admits no other request to that provider.
C1_SingleProbe ==
    [][\A p \in AllProviders : \A t \in Slots :
          Admits(t, p) =>
             /\ GetMetrics(breakers[p]).state = OPEN
                   => reqs'[t].permit = "half-open probe"
             /\ \A s \in Slots \ {t} :
                   ~(ProbeInFlight(reqs, s, p) /\ ProbeInFlight(reqs', s, p))]_vars

\* the breaker of p is OPEN and its cooldown has elapsed
OpenElapsed(p) ==
    /\ breakers[p].state = OPEN
    /\ breakers[p].openedAgo >= breakers[p].cooldownMs

\* C4: while completion requests keep arriving, a breaker that is OPEN with its
\* cooldown elapsed is eventually asked canExecute() by some request, which is
\* admitted as the HALF_OPEN probe.
C4_ProbeRecovery ==
    \A p \in {"openai", "groq"} :
        [](OpenElapsed(p) => <>(breakers[p].state = HALF_OPEN))

(***************************************************************************)
(* Properties of the request log                                           *)
(***************************************************************************)
\* the step is one in which the handler of connection s calls logRequest
LogCall(s) == reqs'[s].logs > reqs[s].logs

\* the step runs flushWriteQueue() on a queue that holds rows
FlushRan == writeQueue > 0 /\ writeQueue' < writeQueue

C12_DegradedDrops ==
    [][/\ \A s \in Slots :
             LogCall(s) =>
                /\ (isDegraded /\ reqs'[s].kind = "cache") => writeQueue' = writeQueue
                /\ (~isDegraded \/ reqs'[s].kind # "cache") => writeQueue' = writeQueue + 1
                /\ isDegraded' = (isDegraded \/ writeQueue' > MAX_WRITE_QUEUE)
       /\ (~isDegraded /\ isDegraded') => \E s \in Slots : LogCall(s)]_vars

C12_Witness ==
    /\ isDegraded
    /\ proc.said = "degraded"
    /\ writeQueue = MAX_WRITE_QUEUE + 2
    /\ reqs[1].pc = "responded"
    /\ reqs[1].kind = "mock"

\* C13: the process is never in degraded mode with a queue depth below 500, and a
\* step that leaves degraded mode leaves the depth below 500.
C13_DegradedExit ==
    [][/\ isDegraded' => writeQueue' >= MAX_WRITE_QUEUE \div 2
       /\ (isDegraded /\ ~isDegraded') => writeQueue' < MAX_WRITE_QUEUE \div 2]_vars

C13_Witness ==
    /\ proc.said = "recovered"
    /\ ~isDegraded
    /\ writeQueue = 0
    /\ db.written = MaxRows

\* the pairs (pc, pc') of the signal handler's statements, in their order
ShutdownSteps ==
    { <<"running", "flushed">>, <<"flushed", "rlStopped">>, <<"rlStopped", "bmStopped">>,
      <<"bmStopped", "closed">>, <<"closed", "exited">> }

\* C14: once a termination signal is handled the process flushes the queue, stops
\* the bandit timer, stops the benchmarker timer, closes storage and exits, in this
\* order and with nothing in between; the queue is empty when storage is closed and
\* nothing is written afterwards.
C14_ShutdownOrder ==
    [][/\ proc'.pc # proc.pc =>
             /\ <<proc.pc, proc'.pc>> \in ShutdownSteps
             /\ proc'.pc = "flushed" =>
                   /\ writeQueue' = 0
                   /\ db'.open
                   /\ writeQueue > 0 => db'.written = Min(writeQueue, MaxRows)
             /\ proc'.pc = "rlStopped" => (~proc'.rlTimer /\ proc'.bmTimer /\ db' = db)
             /\ proc'.pc = "bmStopped" => (~proc'.rlTimer /\ ~proc'.bmTimer /\ db' = db)
             /\ proc'.pc = "closed" =>
                   (db' = [db EXCEPT !.open = FALSE] /\ writeQueue = 0 /\ ~flushTimer)
             /\ proc'.pc = "exited" => db' = db
       /\ ~Running => UNCHANGED <<breakerVars, limitVars, serverVars>>
       /\ ~db.open => (db' = db /\ writeQueue' = 0)]_vars

C14_Witness ==
    /\ proc.pc = "exited"
    /\ ~db.open
    /\ ~proc.rlTimer
    /\ ~proc.bmTimer
    /\ db.written = MaxRows
    /\ writeQueue = 0

(***************************************************************************)
(* Properties of the cache hit                                             *)
(***************************************************************************)
\* the step answers the request arriving on connection s from the cache
CacheHitStep(s) ==
    /\ reqs[s].pc = "idle"
    /\ reqs'[s].pc = "responded"
    /\ reqs'[s].kind = "cache"

\* what a cache hit leaves alone: no classification, routing or dispatch, no breaker
\* record, no bandit update, no store, no usage change; one call of logRequest
HitFrame(s) ==
    /\ reqs'[s].status = 200
    /\ reqs'[s].cls = NoClass
    /\ reqs'[s].cands = << >>
    /\ reqs'[s].logs = 1
    /\ reqs'[s].fbs = 0
    /\ breakers' = breakers
    /\ tenants' = tenants
    /\ cache' = EvictExpired(cache)
    /\ db' = db

\* C18 as stated: the cache hit puts one row in the queue
C18_Original ==
    [][\A s \in Slots : CacheHitStep(s) => (HitFrame(s) /\ writeQueue' = writeQueue + 1)]_vars

\* C18: a non-streaming cache hit answers at once and changes nothing but the log:
\* it puts one row in the queue, or none when the process is in degraded mode.
C18_CacheHitFrame ==
    [][\A s \in Slots :
          CacheHitStep(s) =>
             /\ HitFrame(s)
             /\ writeQueue' = IF isDegraded THEN writeQueue ELSE writeQueue + 1]_vars

C18_Witness ==
    /\ reqs[1].pc = "responded"
    /\ reqs[1].kind = "cache"
    /\ cache[HashPrompt("hi")] # NoEntry
    /\ cache[HashPrompt("hi")].age > 0
    /\ writeQueue = 1

(***************************************************************************)
(* Properties of the cost                                                  *)
(***************************************************************************)
\* the request of connection s was answered with the token counts of
\* generateMockResponse: ceil(prompt.length / 4) and ceil(content.length / 4)
CostFromEstimate(s) == reqs[s].pc = "responded" /\ reqs[s].kind = "mock"

\* C17: with a provider configured, no completed request has its cost computed,
\* logged and charged from the token counts that generateMockResponse estimates
\* from the length of the prompt.
C17_ActualTokens == providers # {} => \A s \in Slots : ~CostFromEstimate(s)

(***************************************************************************)
(* Properties of the fallback loop                                         *)
(***************************************************************************)
\* the provider of the candidate at position k of the request's fallback list
ProviderAt(r, k) == Catalog[r.cands[k]].provider

\* what the loop of the request had tried, and how far it had come
TriedBefore(r) == IF r.pc = "call" THEN r.tried ELSE {}
PosBefore(r) == IF r.pc = "call" THEN r.pos ELSE 0

\* the newest event of a breaker
LastEvent(b) == b.events[Len(b.events)]

\* the score routeRequest gave candidate i of the request
ScoreOf(r, i) ==
    TotalScore(i, {r.cands[k] : k \in 1..Len(r.cands)}, r.cls,
               IF r.strategy \in Strategies THEN r.strategy ELSE "balanced",
               CHOOSE rl \in RlInputs : TRUE, CHOOSE bm \in BmInputs : TRUE)

\* the fallback list of a request in the loop is in descending order of score
InScoreOrder(r) ==
    \A j, k \in 1..Len(r.cands) : j < k => ScoreOf(r, r.cands[j]) >= ScoreOf(r, r.cands[k])

\* the step answers the request of connection s after its last call failed
ErrorStep(s) ==
    /\ reqs[s].pc = "call"
    /\ reqs'[s].pc = "responded"
    /\ reqs'[s].kind = "error"

\* C15: the fallback loop of a non-streaming request walks the candidates in score
\* order from the selected one; a call goes to a configured provider the request has
\* not tried, every candidate passed over is of a provider that is not configured,
\* was tried, or was denied by its breaker; the failure of a call is recorded on its
\* breaker in the step that moves on, and the success of a call ends the loop.
C15_FallbackOrder ==
    [][\A s \in Slots :
          LET r == reqs[s]
              r2 == reqs'[s]
          IN  /\ r2.pc = "call" => InScoreOrder(r2)
              /\ \A p \in AllProviders :
                    (Admits(s, p) /\ r2.pc = "call") =>
                       /\ p \in providers
                       /\ p \notin TriedBefore(r)
                       /\ r2.pos > PosBefore(r)
                       /\ r.pc = "call" => r2.cands = r.cands
                       /\ TriedBefore(r) \cup {p} \subseteq r2.tried
                       /\ \A k \in (PosBefore(r) + 1)..(r2.pos - 1) :
                             \/ ProviderAt(r2, k) \notin providers
                             \/ ProviderAt(r2, k) \in r2.tried \ {p}
                       /\ \A q \in r2.tried \ (TriedBefore(r) \cup {p}) :
                             /\ q \in providers
                             /\ ~CanExecute(breakers'[q]).allowed
                       /\ breakers'[p].state # OPEN
              /\ (r.pc = "call" /\ (r2.pc # "call" \/ r2.pos # r.pos)) =>
                    LET p == ProviderAt(r, r.pos)
                    IN  /\ RecordedOn(p)
                        /\ LastEvent(breakers'[p]).success =>
                              (r2.pc = "responded" /\ r2.kind = "provider" /\ r2.status = 200)
                        /\ ~LastEvent(breakers'[p]).success =>
                              \/ r2.pc = "call" /\ r2.pos > r.pos
                              \/ r2.pc = "responded" /\ r2.kind = "error"
              /\ ErrorStep(s) =>
                    \A k \in (r.pos + 1)..Len(r.cands) :
                       \/ ProviderAt(r, k) \notin providers
                       \/ ProviderAt(r, k) \in r.tried
                       \/ ~CanExecute(breakers'[ProviderAt(r, k)]).allowed]_vars

\* the second call of a request, made after its first candidate failed and a
\* candidate of the same provider was passed over
C15_Witness ==
    /\ reqs[1].pc = "call"
    /\ reqs[1].pos > 2
    /\ ProviderAt(reqs[1], 1) = ProviderAt(reqs[1], 2)
    /\ reqs[1].tried = {"openai", "groq"}
    /\ breakers[ProviderAt(reqs[1], 1)].events # << >>
    /\ ~LastEvent(breakers[ProviderAt(reqs[1], 1)]).success

\* C16: when the last call of a non-streaming request fails and no candidate is left
\* the answer carries the status of that error, or 502 when the error has none or 0,
\* and nothing is stored, logged, charged or fed back.
C16_AllFailed ==
    [][\A s \in Slots :
          /\ ErrorStep(s) =>
                /\ reqs'[s].lastError.thrown
                /\ reqs'[s].status = IF reqs'[s].lastError.status \in {NoStatus, 0}
                                     THEN 502 ELSE reqs'[s].lastError.status
                /\ ~LastEvent(breakers'[ProviderAt(reqs[s], reqs[s].pos)]).success
                /\ reqs'[s].logs = 0
                /\ reqs'[s].fbs = 0
                /\ cache' = cache
                /\ tenants' = tenants
                /\ tenantCache' = tenantCache
                /\ writeQueue' = writeQueue
                /\ db' = db
          /\ (reqs[s].pc = "call" /\ reqs'[s].pc = "responded") =>
                reqs'[s].kind \in {"provider", "error"}]_vars

\* the request was answered 502 after the calls to both providers failed, the last
\* one without a status
C16_Witness ==
    /\ reqs[1].pc = "responded"
    /\ reqs[1].kind = "error"
    /\ reqs[1].status = 502
    /\ reqs[1].lastError.thrown
    /\ reqs[1].lastError.status \in {NoStatus, 0}
    /\ \A p \in providers : breakers[p].events # << >> /\ ~LastEvent(breakers[p]).success

\* ---------------------------------------------------------------------------
\* SemanticCache: what lookup() returns
\* ---------------------------------------------------------------------------

LookupHit == semanticCache.returned.op = "lookup" /\ semanticCache.returned.hit

\* C19: every cache hit, exact or semantic, returns an entry whose age
\* (now - entry.timestamp) is below the ttl.
C19_HitWithinTtl ==
    LookupHit => semanticCache.returned.age < semanticCache.ttlMs

\* the part of C19 that the exact path alone carries
C19_ExactWithinTtl ==
    (LookupHit /\ semanticCache.returned.source = "exact")
        => semanticCache.returned.age < semanticCache.ttlMs

\* after a lookup no entry older than the ttl is left in the map or in the
\* embedding entries
C19_ExpiredEvicted ==
    semanticCache.returned.op = "lookup" =>
        /\ \A h \in CacheHashes :
              semanticCache.exactMatchMap[h] # NoEntry
                  => semanticCache.exactMatchMap[h].age <= semanticCache.ttlMs
        /\ \A i \in 1..Len(semanticCache.embeddingEntries) :
              semanticCache.embeddingEntries[i].age <= semanticCache.ttlMs

StoreThenLookup ==
    /\ semanticCache.returned.op = "store"
    /\ semanticCache'.returned.op = "lookup"
    /\ semanticCache'.returned.hash = semanticCache.returned.hash

\* C20: a lookup(h) that immediately follows store(h, r, m) is an exact hit
\* returning r and m, whatever the store evicted or replaced.
C20_StoreThenLookup ==
    [][StoreThenLookup =>
          /\ semanticCache'.returned.hit
          /\ semanticCache'.returned.source = "exact"
          /\ semanticCache'.returned.response = semanticCache.returned.response
          /\ semanticCache'.returned.model = semanticCache.returned.model]_vars

\* a lookup answered right after a store of its hash that evicted an entry, and
\* one right after a store that replaced the entry of the hash at capacity
C20_Witness ==
    /\ LookupHit
    /\ semanticCache.returned.prev.op = "store"
    /\ semanticCache.returned.prev.hash = semanticCache.returned.hash
    /\ semanticCache.returned.prev.evicted > 0
    /\ semanticCache.returned.prev.replaced

\* ---------------------------------------------------------------------------
\* SemanticCache: capacity and the order of eviction
\* ---------------------------------------------------------------------------

CacheKeysOf(c) == {h \in CacheHashes : c.exactMatchMap[h] # NoEntry}
Range(q) == {q[i] : i \in 1..Len(q)}
Without(q, hs) == SelectSeq(q, LAMBDA h : h \notin hs)

\* accessOrder lists the keys of the map, each once
OrderListsKeys(c) ==
    /\ Range(c.accessOrder) = CacheKeysOf(c)
    /\ Len(c.accessOrder) = Cardinality(CacheKeysOf(c))

\* the hashes a store takes out for room, read from the order before it
EvictedBy(c, n) == Range(SubSeq(c.accessOrder, 1, n))

\* a store of h: the n least recently used hashes go, with their embedding
\* entries, and h becomes the most recently used
StoreEvictsLRU ==
    semanticCache'.returned.op = "store" =>
        LET h == semanticCache'.returned.hash
            gone == EvictedBy(semanticCache, semanticCache'.returned.evicted)
        IN  /\ semanticCache'.returned.evicted > 0 => MapSize(semanticCache) >= semanticCache.maxSize
            /\ CacheKeysOf(semanticCache') = (CacheKeysOf(semanticCache) \ gone) \cup {h}
            /\ \A i \in 1..Len(semanticCache'.embeddingEntries) :
                  semanticCache'.embeddingEntries[i].hash \in gone
                      => /\ semanticCache'.embeddingEntries[i].hash = h
                         /\ semanticCache'.embeddingEntries[i].age = 0
            /\ semanticCache'.accessOrder
                  = Append(Without(semanticCache.accessOrder, gone \cup {h}), h)

\* a hit moves the hash of the entry it returns to the most recent end and
\* keeps the order of the others (expired keys leave)
HitTouches ==
    (semanticCache'.returned.op = "lookup" /\ semanticCache'.returned.hit) =>
        \E h \in CacheKeysOf(semanticCache') :
            /\ semanticCache'.returned.source = "exact" => h = semanticCache'.returned.hash
            /\ semanticCache'.accessOrder
                  = Append(Without(semanticCache.accessOrder,
                                   (CacheHashes \ CacheKeysOf(semanticCache')) \cup {h}), h)

\* C21: the cache never holds more than maxSize exact entries, and a store that
\* evicts removes the least recently stored or hit hashes with their embedding
\* entries.
C21_CapacityLRU ==
    [][/\ MapSize(semanticCache') <= semanticCache'.maxSize
       /\ OrderListsKeys(semanticCache')
       /\ StoreEvictsLRU
       /\ HitTouches]_vars

\* a store into a full map has evicted a hash that had an embedding entry
C21_Witness ==
    /\ semanticCache.returned.op = "store"
    /\ semanticCache.returned.evicted > 0
    /\ semanticCache.returned.dropped > 0
    /\ ~semanticCache.returned.replaced
    /\ MapSize(semanticCache) = semanticCache.maxSize

\* ---------------------------------------------------------------------------
\* routeRequest: the candidates it scores and the model it selects
\* ---------------------------------------------------------------------------

\* the models scored by the latest call
Scored == Range(routing.result.allCandidates)

OpenAt(i) == routing.breakerStates[Catalog[i].provider] = OPEN

\* the models the allowlist and the breaker states of the latest call leave
Viable ==
    {i \in ModelIdx :
        /\ routing.tenantAllowedModels.restricted
              => Catalog[i].id \in routing.tenantAllowedModels.ids
        /\ ~OpenAt(i)}

\* C22: whatever the inputs, the router scores a non-empty candidate set and
\* returns a selected model; when the filters leave nothing it scores every
\* catalog model.
C22_CandidatesNonEmpty ==
    routing.called =>
        /\ ~routing.result.threw
        /\ Scored # {}
        /\ routing.result.selected = routing.result.allCandidates[1]
        /\ routing.result.selected \in ModelIdx
        /\ routing.result.selectedModelId = Catalog[routing.result.selected].id
        /\ Viable # {} => Scored \subseteq Viable
        /\ Viable = {} => Scored = ModelIdx

\* a call whose filters left no model: every provider OPEN, no allowlist
C22_Witness ==
    /\ routing.called
    /\ ~routing.tenantAllowedModels.restricted
    /\ \A i \in ModelIdx : OpenAt(i)
    /\ Scored = ModelIdx
    /\ routing.result.selected \in ModelIdx

\* C23: the provider of the selected model is not OPEN in the breaker states
\* given to the call, unless every provider is OPEN, when the ultimate
\* fallback runs and warns.
C23_SelectedNotOpen ==
    routing.called =>
        \/ ~OpenAt(routing.result.selected)
        \/ /\ \A i \in ModelIdx : OpenAt(i)
           /\ routing.result.warned

\* the fallback warns whenever it runs, and without an allowlist the selected
\* provider is OPEN only when every provider is
C23_WithoutAllowlist ==
    (routing.called /\ ~routing.tenantAllowedModels.restricted) =>
        /\ routing.result.warned <=> Viable = {}
        /\ OpenAt(routing.result.selected) => \A i \in ModelIdx : OpenAt(i)

\* the candidate list is in descending score order, equal scores in catalog order
StableDescending(r) ==
    \A k \in 1..(Len(r.allCandidates) - 1) :
        \/ r.scores[r.allCandidates[k]] > r.scores[r.allCandidates[k + 1]]
        \/ /\ r.scores[r.allCandidates[k]] = r.scores[r.allCandidates[k + 1]]
           /\ r.allCandidates[k] < r.allCandidates[k + 1]

HasTie(r) ==
    \E k \in 1..(Len(r.allCandidates) - 1) :
        r.scores[r.allCandidates[k]] = r.scores[r.allCandidates[k + 1]]

TierMinimum == TIER_MIN_QUALITY[routing.classification.tier]
TierKept ==
    LET q == {i \in Viable : Catalog[i].quality_score >= TierMinimum}
    IN  IF q # {} THEN q ELSE Viable
AdjustedMinimum == IF TierMinimum + 15 < 95 THEN TierMinimum + 15 ELSE 95
SafeSubset == {i \in TierKept : Catalog[i].quality_score >= AdjustedMinimum}

\* C25: with confidence below 0.5 and a non-empty safe subset every scored
\* candidate has at least the adjusted minimum quality; otherwise the result of
\* the tier minimum filter is what is scored.
C25_ConfidenceAdjustment ==
    routing.called =>
        IF routing.classification.confidencePct < 50 /\ SafeSubset # {}
        THEN /\ Scored = SafeSubset
             /\ \A i \in Scored : Catalog[i].quality_score >= AdjustedMinimum
        ELSE TierKept # {} => Scored = TierKept

\* a call of low confidence whose adjusted minimum removed a candidate
C25_Witness ==
    /\ routing.called
    /\ routing.classification.confidencePct < 50
    /\ SafeSubset # {}
    /\ SafeSubset # TierKept
    /\ Scored = SafeSubset

\* ---------------------------------------------------------------------------
\* RLEngine: the posteriors under feedback and recompute
\* ---------------------------------------------------------------------------

\* every set of weights the engine holds
AllWeights ==
    {rlEngine.globalWeights}
        \cup {rlEngine.tenantWeights[t] : t \in {u \in TenantIds : rlEngine.tenantWeights[u] # NoWeights}}

\* C26: after any sequence of automatic feedback, POST /api/feedback and
\* recomputes, every posterior has alpha > 0, beta > 0 and alpha + beta <= 200.
C26_PosteriorBounds ==
    \A w \in AllWeights : \A id \in ModelIds :
        /\ w[id].alpha > 0
        /\ w[id].beta > 0
        /\ w[id].alpha + w[id].beta <= maxWindowSize * AlphaUnit

\* the part of C26 that holds for every reward: the sum stays within the window
C26_WindowBound ==
    \A w \in AllWeights : \A id \in ModelIds :
        w[id].alpha + w[id].beta <= maxWindowSize * AlphaUnit

\* what the rows add to alpha and to beta of a model, from index i on
RECURSIVE RowsAlpha(_, _, _)
RowsAlpha(rows, id, i) ==
    IF i > Len(rows) THEN 0
    ELSE (IF rows[i].model_id = id THEN Dampen(ComputeReward(rows[i])) ELSE 0)
         + RowsAlpha(rows, id, i + 1)

RECURSIVE RowsBeta(_, _, _)
RowsBeta(rows, id, i) ==
    IF i > Len(rows) THEN 0
    ELSE (IF rows[i].model_id = id THEN Dampen(RewardUnit - ComputeReward(rows[i])) ELSE 0)
         + RowsBeta(rows, id, i + 1)

\* the global posteriors are the prior plus the stored rows
RebuiltFrom(e, rows) ==
    \A id \in ModelIds :
        /\ e.globalWeights[id].alpha = AlphaUnit + RowsAlpha(rows, id, 1)
        /\ e.globalWeights[id].beta = AlphaUnit + RowsBeta(rows, id, 1)

RecomputeStep == rlEngine'.last.op = "recompute"

\* C27: each periodic recompute rebuilds every global posterior from the prior
\* and the stored feedback rows alone, and leaves the tenant posteriors as
\* they are.
C27_RecomputeRebuilds ==
    [][RecomputeStep =>
          /\ RebuiltFrom(rlEngine', routingFeedback)
          /\ rlEngine'.tenantWeights = rlEngine.tenantWeights]_vars

\* the parts of C27 that hold: a recompute that read rows rebuilds the global
\* posteriors from them, and no recompute touches a tenant's posteriors
C27_RebuildsFromRows ==
    [][RecomputeStep =>
          /\ routingFeedback # << >> => RebuiltFrom(rlEngine', routingFeedback)
          /\ routingFeedback = << >> => rlEngine'.globalWeights = rlEngine.globalWeights
          /\ rlEngine'.tenantWeights = rlEngine.tenantWeights]_vars

\* ---------------------------------------------------------------------------
\* handleStreamingRequest: the client disconnects
\* ---------------------------------------------------------------------------

\* the client of connection s has gone
Disconnected(s) == reqs[s].aborted

\* C28: once the client of a stream has disconnected, at any point after the
\* streaming branch has begun, no upstream provider stream of that request is
\* left open and no further chunk is written to the client.
C28_DisconnectDestroys ==
    /\ [](\A s \in Slots : Disconnected(s) => reqs[s].upstream # "open")
    /\ [][\A s \in Slots :
            (Disconnected(s) /\ reqs'[s].aborted) => reqs'[s].sent = reqs[s].sent]_vars

\* the parts of C28 that hold: nothing is written after the disconnect, and a
\* stream that was open at the disconnect is destroyed by it
C28_NoWriteAfterDisconnect ==
    [][\A s \in Slots :
         /\ (Disconnected(s) /\ reqs'[s].aborted) => reqs'[s].sent = reqs[s].sent
         /\ (~Disconnected(s) /\ reqs'[s].aborted /\ reqs[s].upstream = "open")
               => reqs'[s].upstream = "destroyed"]_vars

\* C29: a streaming request whose client disconnected before the stream ended
\* has exactly one log row once its handler is done, and the row carries the
\* latency accrued at the disconnect.
C29_LogRowAtDisconnect ==
    \A s \in Slots :
        (reqs[s].pc = "gone" /\ reqs[s].upstream \in {"destroyed", "ended"})
            => /\ reqs[s].logs = 1
               /\ reqs[s].logLatency = reqs[s].abortedAt

\* the part of C29 that holds: such a request never has more than one row, and
\* has one when the upstream stream was left to end
C29_AtMostOneRow ==
    \A s \in Slots :
        reqs[s].pc = "gone"
            => /\ reqs[s].logs <= 1
               /\ reqs[s].upstream = "ended" => reqs[s].logs = 1

\* ---------------------------------------------------------------------------
\* AnthropicProvider.chatCompletionStream: what the translator emits
\* ---------------------------------------------------------------------------

\* the content_block_delta events of the stream
DeltasOf(events) == SubSeq(events, 2, Len(events) - 2)

\* what a text is pushed as: itself, or U+FFFD for the bytes of a character
ReadAs(text) == IF text = TwoByteText THEN {text, ReplacedText} ELSE {text}

\* N content chunks in the order of the deltas, each with the text of its delta
\* and not empty; one terminal chunk; one [DONE]; nothing else
EmitsAll(t) ==
    LET deltas == DeltasOf(t.events)
        n == Len(deltas)
    IN  /\ Len(t.pushed) = n + 2
        /\ \A i \in 1..n :
              /\ t.pushed[i].data = "chunk"
              /\ t.pushed[i].finish_reason = "null"
              /\ t.pushed[i].content \in ReadAs(deltas[i].text)
              /\ t.pushed[i].content # ""
        /\ t.pushed[n + 1].data = "chunk"
        /\ t.pushed[n + 1].finish_reason = "stop"
        /\ t.pushed[n + 1].content = ""
        /\ t.pushed[n + 2].data = "[DONE]"

EveryDeltaHasText(t) ==
    \A i \in 1..Len(DeltasOf(t.events)) : DeltasOf(t.events)[i].text # ""

\* C30 as stated: for any sequence message_start, N content_block_delta,
\* message_delta, message_stop, the translator has emitted exactly N non-empty
\* content chunks in order, one terminal chunk with finish_reason 'stop' and
\* one [DONE] when the stream has ended.
C30_AnyDeltas == transformer.ended => EmitsAll(transformer)

\* C30 (amended): the same for the sequences whose content_block_delta events
\* all carry a text that is not empty, however the bytes are cut into chunks.
C30_TranslatesDeltas ==
    (transformer.ended /\ EveryDeltaHasText(transformer)) => EmitsAll(transformer)

\* a stream of two deltas with text has ended, one of its lines having arrived
\* in two chunks
C30_Witness ==
    /\ transformer.ended
    /\ Len(DeltasOf(transformer.events)) = MaxDeltas
    /\ EveryDeltaHasText(transformer)
    /\ transformer.held
    /\ Len(transformer.pushed) = MaxDeltas + 2

\* a delta without text gives no chunk, and the rest is emitted as before
C30_EmptyDeltaDropped ==
    transformer.ended =>
        Len(transformer.pushed) + Cardinality({i \in 1..Len(DeltasOf(transformer.events)) :
                                                 DeltasOf(transformer.events)[i].text = ""})
            = Len(DeltasOf(transformer.events)) + 2

\* ---------------------------------------------------------------------------
\* routeRequest: the tenant allowlist
\* ---------------------------------------------------------------------------

\* model i is in the allowlist given to the latest call
Allowed(i) == Catalog[i].id \in routing.tenantAllowedModels.ids

\* C39: when an allowlist is supplied, the selected model and every candidate
\* returned for fallback is a member of it, whatever the breaker states, the
\* tier and the confidence.
C39_WithinAllowlist ==
    (routing.called /\ routing.tenantAllowedModels.restricted) =>
        /\ Allowed(routing.result.selected)
        /\ \A i \in Scored : Allowed(i)

\* the part of C39 that holds: the candidates are within the allowlist whenever
\* the allowlist and the breaker states leave a model
C39_WithinAllowlistIfViable ==
    (routing.called /\ routing.tenantAllowedModels.restricted /\ Viable # {}) =>
        /\ Allowed(routing.result.selected)
        /\ \A i \in Scored : Allowed(i)

\* ---------------------------------------------------------------------------
\* SemanticCache: the bookkeeping
\* ---------------------------------------------------------------------------

\* the keys of exactMatchMap
MapKeys(c) == {h \in CacheHashes : c.exactMatchMap[h] # NoEntry}

\* C40: after any sequence of stores and lookups, accessOrder holds exactly the
\* keys of exactMatchMap, each once; the hash of every embedding entry is a key
\* of exactMatchMap; totalLookups = exactHits + semanticHits + misses; and the
\* eviction loop of store() ends with the map below capacity.
C40_Bookkeeping ==
    /\ Range(semanticCache.accessOrder) = MapKeys(semanticCache)
    /\ Len(semanticCache.accessOrder) = Cardinality(MapKeys(semanticCache))
    /\ \A i \in 1..Len(semanticCache.embeddingEntries) :
          semanticCache.embeddingEntries[i].hash \in MapKeys(semanticCache)
    /\ semanticCache.stats.totalLookups
          = semanticCache.stats.exactHits + semanticCache.stats.semanticHits
            + semanticCache.stats.misses
    /\ MapSize(EvictLRU(semanticCache)) < semanticCache.maxSize

\* a lookup has hit in a full map that holds embeddings, after a store that
\* evicted an entry
C40_Witness ==
    /\ semanticCache.returned.op = "lookup"
    /\ semanticCache.returned.hit
    /\ semanticCache.returned.prev.op = "store"
    /\ semanticCache.returned.prev.evicted > 0
    /\ MapSize(semanticCache) = semanticCache.maxSize
    /\ semanticCache.embeddingEntries # << >>

\* ---------------------------------------------------------------------------
\* AnthropicProvider.chatCompletionStream: the cut of the bytes into chunks
\* ---------------------------------------------------------------------------

\* the translator that is given all the bytes of the events in one chunk
InOneChunk(events) == Transform(NoTransformer, Wire(events, 1))

\* what the stream has pushed and counted is what one chunk would have given
SameAsOneChunk(t) ==
    /\ t.pushed = InOneChunk(t.events).pushed
    /\ t.inputTokens = InOneChunk(t.events).inputTokens
    /\ t.outputTokens = InOneChunk(t.events).outputTokens

\* C33: the output of the translator and the token counts it captures depend
\* on the upstream bytes only: once the stream has ended they are the same for
\* every way of cutting the bytes into chunks.
C33_SplitInvariant == transformer.ended => SameAsOneChunk(transformer)

\* the part of C33 that holds: the same for the streams whose characters all
\* take one byte, and for every stream the number of pushes and the token
\* counts do not depend on the cut
C33_SplitInvariantAscii ==
    transformer.ended =>
        /\ (\A i \in 1..Len(transformer.events) : transformer.events[i].text # TwoByteText)
              => SameAsOneChunk(transformer)
        /\ Len(transformer.pushed) = Len(InOneChunk(transformer.events).pushed)
        /\ transformer.inputTokens = InOneChunk(transformer.events).inputTokens
        /\ transformer.outputTokens = InOneChunk(transformer.events).outputTokens

\* ---------------------------------------------------------------------------
\* CircuitBreaker: after the probe has closed the circuit
\* ---------------------------------------------------------------------------

\* a success that is no timeout and whose latency is below the p95 threshold
GoodSuccess(e) == e.success /\ ~e.timedOut /\ e.latencyMs < p95LatencyThreshold

\* the results recorded on breaker b since its circuit opened, of those the
\* window still holds
SinceOpened(b) ==
    {i \in 1..Len(b.events) : b.events[i].age < b.openedAgo /\ b.events[i].age < windowMs}

\* the circuit of breaker p has opened, a probe has closed it, and every result
\* recorded since is a success that is no timeout and is below the p95 threshold
ClosedByProbe(p) ==
    /\ breakers[p].state = CLOSED
    /\ breakers[p].openedAgo # NotOpened
    /\ SinceOpened(breakers[p]) # {}
    /\ \A i \in SinceOpened(breakers[p]) : GoodSuccess(breakers[p].events[i])

\* a step that records one more such success on breaker p
RecordsGoodSuccess(p) ==
    /\ Len(breakers'[p].events) > 0
    /\ LastEvent(breakers'[p]).age = 0
    /\ GoodSuccess(LastEvent(breakers'[p]))
    /\ breakers'[p] = RecordResult(breakers[p], TRUE, LastEvent(breakers'[p]).latencyMs, FALSE)

\* C35: once a successful probe has closed the circuit, recording a success that
\* is no timeout and is below the p95 threshold leaves it CLOSED, as long as
\* every result recorded since the probe is such a success.
C35_StaysClosed ==
    [][\A p \in AllProviders :
         (ClosedByProbe(p) /\ RecordsGoodSuccess(p)) => breakers'[p].state = CLOSED]_vars

\* the part of C35 that holds: the probe's own success closes the circuit, and
\* the successes after it keep it CLOSED once the window holds no failure
C35_StaysClosedWithoutFailures ==
    [][\A p \in AllProviders :
         /\ (breakers[p].state = HALF_OPEN /\ RecordsGoodSuccess(p))
               => breakers'[p].state = CLOSED
         /\ (/\ ClosedByProbe(p)
             /\ RecordsGoodSuccess(p)
             /\ CountFailures(PruneOldEvents(breakers[p]).events) = 0)
               => breakers'[p].state = CLOSED]_vars

\* ---------------------------------------------------------------------------
\* The fallback loop that dispatches to no candidate
\* ---------------------------------------------------------------------------

\* the handler of connection s leaves the fallback loop without having called
\* any provider and answers
NothingDispatched(s) ==
    /\ reqs[s].pc = "classify"
    /\ ~reqs[s].stream
    /\ reqs'[s].pc = "responded"
    /\ reqs'[s].kind = "none"

\* C38: when the loop of a non-streaming request dispatches to no candidate, the
\* client receives an error response, and the request stores nothing in the
\* cache, logs no row, charges no tenant and feeds nothing back to the bandit.
C38_NothingDispatched ==
    [][\A s \in Slots :
         NothingDispatched(s) =>
            /\ reqs'[s].status >= 400
            /\ reqs'[s].logs = 0
            /\ reqs'[s].fbs = 0
            /\ cache' = cache
            /\ tenants' = tenants]_vars

\* the part of C38 that holds: such a request stores nothing in the cache
C38_NothingStored ==
    [][\A s \in Slots : NothingDispatched(s) => cache' = cache]_vars

\* ---------------------------------------------------------------------------
\* recordResult with several requests in flight on one provider
\* ---------------------------------------------------------------------------

\* the call of connection s to provider p settles in this step and its result
\* is recorded on the breaker of p
ResultRecorded(s, p) ==
    /\ DispatchedTo(reqs[s]) = p
    /\ reqs'[s] # reqs[s]
    /\ RecordedOn(p)

\* C36: while the breaker of p is HALF_OPEN the result of a request that was
\* not admitted as its probe leaves it HALF_OPEN, and a result recorded while
\* it is OPEN leaves openedAt as it is.
C36_OnlyProbeDecides ==
    [][\A p \in AllProviders : \A s \in Slots :
         ResultRecorded(s, p) =>
            /\ (breakers[p].state = HALF_OPEN /\ reqs[s].permit # "half-open probe")
                  => breakers'[p].state = HALF_OPEN
            /\ breakers[p].state = OPEN
                  => breakers'[p].openedAgo = breakers[p].openedAgo]_vars

\* the first half of C36 by itself
C36_LateResultInHalfOpen ==
    [][\A p \in AllProviders : \A s \in Slots :
         (/\ ResultRecorded(s, p)
          /\ breakers[p].state = HALF_OPEN
          /\ reqs[s].permit # "half-open probe")
            => breakers'[p].state = HALF_OPEN]_vars

\* the second half of C36 by itself, for any result recorded on the breaker: it
\* fails as soon as time passes between the opening and a result that finds
\* the window over a threshold
C36_OpenedAtKept ==
    [][\A p \in AllProviders :
         (RecordedOn(p) /\ breakers[p].state = OPEN)
            => breakers'[p].openedAgo = breakers[p].openedAgo]_vars

\* what holds: the result of the probe itself always takes the breaker out of
\* HALF_OPEN
C36_ProbeDecides ==
    [][\A p \in AllProviders : \A s \in Slots :
         (/\ ResultRecorded(s, p)
          /\ breakers[p].state = HALF_OPEN
          /\ reqs[s].permit = "half-open probe")
            => breakers'[p].state # HALF_OPEN]_vars

\* ---------------------------------------------------------------------------
\* TenantManager: the cached tenant after a usage update
\* ---------------------------------------------------------------------------

\* what authenticate() would return for the key of tenant t now
Authenticated(t) == Authenticate(TenantKey(t), tenantCache, tenants).tenant

\* a step in which trackUsage() updates the row of tenant t
Charged(t) == tenants'[t] # tenants[t]

\* C34: trackUsage(tenantId, cost) leaves no cached record of the tenant, and at
\* any moment authenticate() with the tenant's key returns the usage_this_month
\* of the tenant's row, so the budget check sees every completed usage update.
C34_FreshUsage ==
    /\ [](\A t \in DOMAIN tenants :
            Authenticated(t).usage_this_month = tenants[t].usage_this_month)
    /\ [][\A t \in DOMAIN tenants :
            Charged(t) => \A h \in KeyHashes :
                             tenantCache'[h] = NoTenant \/ tenantCache'[h].id # t]_vars

\* the tenant t1 has been charged and has authenticated again: its cached record
\* carries the usage of its row
C34_Witness ==
    /\ tenants["t1"].usage_this_month > 0
    /\ tenantCache[HashKey(TenantKey("t1"))] # NoTenant
    /\ tenantCache[HashKey(TenantKey("t1"))].usage_this_month = tenants["t1"].usage_this_month

(***************************************************************************)
(* Properties of the classifier                                            *)
(***************************************************************************)
Classified_done == classifier.pc = "done"

\* the tier the thresholds give to a score
TierOfScore(score) ==
    IF score <= 10 THEN "trivial"
    ELSE IF score <= 25 THEN "simple"
    ELSE IF score <= 50 THEN "moderate"
    ELSE IF score <= 75 THEN "complex"
    ELSE "expert"

\* C32: every classification has its score in 0..100 and one of the five tiers;
\* on the heuristic path the tier is the one the thresholds 10, 25, 50, 75 give
\* to the score; and the answer is the heuristic one whenever no session is
\* loaded or the inference failed.
C32_Classification ==
    Classified_done =>
        /\ classifier.result.score \in 0..100
        /\ classifier.result.tier \in {"trivial", "simple", "moderate", "complex", "expert"}
        /\ classifier.result.method \in {"heuristic", "onnx"}
        /\ classifier.result.method = "heuristic" =>
              classifier.result.tier = TierOfScore(classifier.result.score)
        /\ (~classifier.onnxReady \/ classifier.failed) =>
              classifier.result.method = "heuristic"

\* an inference failed and the heuristic answered with a score on a threshold
C32_Witness ==
    /\ Classified_done
    /\ classifier.onnxReady
    /\ classifier.failed
    /\ classifier.result.method = "heuristic"
    /\ classifier.result.score = 25
    /\ classifier.result.tier = "simple"

(***************************************************************************)
(* Properties of BaseProvider.request                                      *)
(***************************************************************************)
\* the errors after which the loop may go on
Retryable(err) == err.status = 429 \/ err.status >= 500 \/ err.status = 0

RequestSettled == baseProvider.pc \in {"returned", "thrown"}

RequestBounded ==
    /\ baseProvider.sent <= baseProvider.maxRetriesOfCall + 1
    /\ (baseProvider.option = NoOption /\ baseProvider.maxRetries = DefaultMaxRetries) =>
          baseProvider.sent <= 3
    /\ (baseProvider.pc \in {"sending", "backoff"} /\ baseProvider.sent > 0) =>
          Retryable(baseProvider.lastError)
    /\ baseProvider.pc = "returned" => baseProvider.sent = baseProvider.returned + 1
    /\ baseProvider.pc = "thrown" =>
          /\ baseProvider.thrown.provider = baseProvider.name
          /\ baseProvider.thrown.status = baseProvider.lastError.status
          /\ \/ ~Retryable(baseProvider.lastError)
             \/ baseProvider.sent = baseProvider.maxRetriesOfCall + 1

RequestStep ==
    \A outcome \in HttpOutcomes :
        ClientRequestSettles(outcome) =>
            /\ outcome.ok => baseProvider'.pc = "returned"
            /\ (~outcome.ok /\ ~Retryable(outcome)) =>
                  /\ baseProvider'.pc = "thrown"
                  /\ baseProvider'.thrown.status = outcome.status
                  /\ baseProvider'.thrown.attempt = baseProvider.attempt
            /\ baseProvider'.pc \in {"sending", "backoff"} => Retryable(outcome)

\* C31: request returns at the first attempt that succeeds, throws the wrapped
\* error at once after a 4xx other than 429, goes on only after a 429, a 5xx or
\* an error without a response, never sends more than maxRetries + 1 attempts
\* (3 with the defaults), and every call ends with a response or a wrapped error.
C31_RetryLoop ==
    /\ []RequestBounded
    /\ [][RequestStep]_vars
    /\ (baseProvider.pc = "sending") ~> RequestSettled

\* a call with the defaults that failed three times with a 503 and then threw
C31_Witness ==
    /\ baseProvider.pc = "thrown"
    /\ baseProvider.option = NoOption
    /\ baseProvider.sent = 3
    /\ baseProvider.lastError.status = 503
    /\ baseProvider.thrown.attempt = 2

(***************************************************************************)
(* Properties of the probe of a streaming request                          *)
(***************************************************************************)
HalfOpen(p) == breakers[p].state = HALF_OPEN

\* C37: a breaker that is HALF_OPEN is eventually not HALF_OPEN: the request
\* admitted as the probe records its result on every path on which it ends.
C37_LeavesHalfOpen == \A p \in AllProviders : HalfOpen(p) ~> ~HalfOpen(p)

\* while the probe is in flight, its result is recorded unless the upstream
\* stream is destroyed
C37_ProbeRecordsUnlessDestroyed ==
    \A p \in AllProviders :
        (HalfOpen(p) /\ reqs[1].pc \in {"streamOpen", "streaming"})
            ~> (~HalfOpen(p) \/ reqs[1].upstream = "destroyed")

====
